---- MODULE Spec2Model ----
(***************************************************************************)
(* Model of the dual CRM generator (data_generation/scripts/               *)
(* dual_crm_generator.py) and of the duplicate injection of the Crocevia   *)
(* generator (crocevia_crm_generator.py).                                  *)
(*                                                                         *)
(* Numbers.  The Python code works on floats; the model gives them their   *)
(* real-number meaning: a float is an exact rational <<num, den>> and      *)
(* int(x) is the floor of the exact value.  (A float product that is an    *)
(* exact integer in the reals can land one ulp below it, in which case     *)
(* Python's count is one less and the one_field remainder one more.)       *)
(*                                                                         *)
(* Strings.  A string is a sequence of string tokens, None is <<"None">>.  *)
(* Row labels are the 0-based labels of pandas; row i of a frame is the    *)
(* element i+1 of the sequence that models it.                             *)
(***************************************************************************)
EXTENDS Integers, Sequences, FiniteSets, TLC

VARIABLES
    mode,               \* which entry point this behaviour exercises
    pc,                 \* position of that entry point
    summit_df,          \* the frame handed to / returned by the function under way
    crocevia_pool_df,   \* the reference pool of _apply_overlap_to_summit_batch
    overlap_ratio,      \* its overlap_ratio argument
    plan,               \* its plan argument (OverlapPlan)
    n,                  \* len(summit_df) as read at line 310
    local_plan,         \* the local `plan` of the applicator (rebound at line 309)
    counts,             \* target_overlap, c_all, c_three, c_two, c_one and used
    popped,             \* row labels popped from remaining_indices, in order
    picked,             \* per pop: the src_sample row and the field list copied
    err,                \* name of the exception that escaped, "" when none
    total_rows,         \* the total_rows arguments of generate_crocevia / generate_summit
    generated,          \* `generated` of the loop under way
    start_index,        \* `start_index` of the loop under way
    first_batch,        \* `first_batch` of the loop under way
    batch,              \* `batch` of the iteration under way
    batch_df,           \* the frame built by / handed to the duplicate injection
    input_df,           \* the frame a duplicate injection was called with
    duplicate_ratio,    \* the ratio argument of the duplicate injection
    CROCEVIA_TABLE,     \* rows of SS_101.SOURCE_DATA.CROCEVIA_CRM
    SUMMIT_TABLE,       \* rows of SS_101.SOURCE_DATA.SUMMIT_SPORTS_CRM
    batches_written,    \* per sink: number of _write_batch calls of this run
    rng,                \* state of the random generators of the run
    query_order,        \* the order ORDER BY RANDOM() gives the rows of a query
    people_table_rows,  \* number of rows SS_101.SOURCE_DATA.FRENCH_PEOPLE holds
    phone_count,        \* the n argument of _generate_french_phones
    phone_unique_ratio, \* its unique_ratio argument
    phone_list,         \* the list it returns
    build_people_df,    \* _build_base_batch: its people_df argument
    build_addr_df,      \* _build_base_batch: its addr_df argument
    base_records,       \* _build_base_batch: the list `rows` of line 277
    num_customers,      \* generate_crocevia_customers: its num_customers argument
    source_sample,      \* the sample of the source customers, line 110
    address_table_rows, \* rows of CROCEVIA_DB.RAW_DATA.ADRESSES_FRANCE the query can return
    triple_indices,     \* the index sets of lines 132-142
    email_indices,
    phone_indices,
    name_indices,
    address_indices,    \* line 147
    french_addresses,   \* the list load_french_addresses returned
    customers           \* the list of customer records, line 151

\* the state of the applicator and the state of the orchestration
applicator == <<summit_df, crocevia_pool_df, overlap_ratio, plan, n, local_plan,
                counts, popped, picked>>
orchestration == <<total_rows, query_order, people_table_rows, phone_count, phone_unique_ratio, phone_list,
                   generated, start_index, first_batch, batch, batch_df,
                   input_df, duplicate_ratio, CROCEVIA_TABLE, SUMMIT_TABLE,
                   batches_written, rng>>

\* the state of one call of _build_base_batch, and of one call of
\* generate_crocevia_customers
builder == <<build_people_df, build_addr_df, base_records>>
customer_generation == <<num_customers, source_sample, address_table_rows, triple_indices,
                         email_indices, phone_indices, name_indices, address_indices,
                         french_addresses, customers>>

vars == <<mode, pc, err, applicator, orchestration, builder, customer_generation>>

(***************************************************************************)
(* Bounds                                                                  *)
(***************************************************************************)
MaxPlanBatch == 24      \* batch sizes of the count computation: 0..MaxPlanBatch
MaxWeight == 2          \* plan weights are 0/10 .. MaxWeight/10
MaxDupBatch == 4        \* frames handed to a duplicate injection: 0..MaxDupBatch rows
MaxPhones == 4          \* _generate_french_phones is called with n in 1..MaxPhones
MaxBuild == 4           \* _build_base_batch: people and address samples of 0..MaxBuild rows
MaxCustomers == 6       \* generate_crocevia_customers: num_customers in 0..MaxCustomers
MaxCustomerSeed == 1    \* outcomes of the per-customer draws: seeds 0..MaxCustomerSeed
BATCH_SIZE_CROCEVIA == 34   \* scaled down from 200_000
BATCH_SIZE_SUMMIT == 34     \* scaled down from 200_000
MaxBatches == 2         \* a run writes at most MaxBatches batches per sink
MaxSeed == 2            \* outcomes of the random draws of a run: seeds 0..MaxSeed
PeopleRows == 40        \* rows of the FRENCH_PEOPLE table
AddressRows == 25       \* rows of the ADRESSES_FRANCE table
MaxBatch == 2           \* rows of a batch handed to the applicator
MaxPool == 2            \* rows of the reference pool

(***************************************************************************)
(* Exact rationals                                                         *)
(***************************************************************************)
RECURSIVE GCD(_, _)
GCD(a, b) == IF b = 0 THEN a ELSE GCD(b, a % b)

Reduce(q) ==
    IF q[1] = 0 THEN <<0, 1>>
    ELSE LET g == GCD(q[1], q[2]) IN <<q[1] \div g, q[2] \div g>>

RAdd(p, q) == Reduce(<<p[1] * q[2] + q[1] * p[2], p[2] * q[2]>>)
RMul(p, q) == Reduce(<<p[1] * q[1], p[2] * q[2]>>)
RDiv(p, q) == Reduce(<<p[1] * q[2], p[2] * q[1]>>)
REq(p, q) == p[1] * q[2] = q[1] * p[2]
RInt(k) == <<k, 1>>
\* int(x) of a non-negative x
IntOf(q) == q[1] \div q[2]

\* Python's `/`: raises ZeroDivisionError on a zero divisor (here: NaR)
NaR == <<0, 0>>
IsNaR(q) == q[2] = 0
TrueDiv(p, q) == IF q[1] = 0 THEN NaR ELSE RDiv(p, q)
FMul(p, q) == IF IsNaR(p) \/ IsNaR(q) THEN NaR ELSE RMul(p, q)

(***************************************************************************)
(* Configuration and OverlapPlan                                           *)
(***************************************************************************)
SUMMIT_OVERLAP_RATIO == <<6, 10>>
DUPLICATE_PROFILE_RATIO == <<3, 100>>

OverlapPlan(a, t, w, o) ==
    [all_fields |-> a, three_fields |-> t, two_fields |-> w, one_field |-> o]

\* OverlapPlan(): the dataclass defaults
DefaultPlan == OverlapPlan(<<1, 10>>, <<2, 10>>, <<2, 10>>, <<1, 10>>)

PlanTotal(p) ==
    RAdd(RAdd(RAdd(p.all_fields, p.three_fields), p.two_fields), p.one_field)

normalized_without_division(p) ==
    OverlapPlan(FMul(p.all_fields, SUMMIT_OVERLAP_RATIO),
                FMul(p.three_fields, SUMMIT_OVERLAP_RATIO),
                FMul(p.two_fields, SUMMIT_OVERLAP_RATIO),
                FMul(p.one_field, SUMMIT_OVERLAP_RATIO))

normalized_unguarded(p) ==
    LET total == PlanTotal(p) IN
    OverlapPlan(FMul(TrueDiv(p.all_fields, total), SUMMIT_OVERLAP_RATIO),
                FMul(TrueDiv(p.three_fields, total), SUMMIT_OVERLAP_RATIO),
                FMul(TrueDiv(p.two_fields, total), SUMMIT_OVERLAP_RATIO),
                FMul(TrueDiv(p.one_field, total), SUMMIT_OVERLAP_RATIO))

normalized_dropping_one_field(p) ==
    LET total == RAdd(RAdd(p.all_fields, p.three_fields), p.two_fields) IN
    IF total[1] = 0 THEN p
    ELSE OverlapPlan(FMul(TrueDiv(p.all_fields, total), SUMMIT_OVERLAP_RATIO),
                     FMul(TrueDiv(p.three_fields, total), SUMMIT_OVERLAP_RATIO),
                     FMul(TrueDiv(p.two_fields, total), SUMMIT_OVERLAP_RATIO),
                     FMul(TrueDiv(p.one_field, total), SUMMIT_OVERLAP_RATIO))

\* OverlapPlan.normalized
normalized(p) ==
    LET total == PlanTotal(p) IN
    IF total[1] = 0 THEN p
    ELSE OverlapPlan(FMul(TrueDiv(p.all_fields, total), SUMMIT_OVERLAP_RATIO),
                     FMul(TrueDiv(p.three_fields, total), SUMMIT_OVERLAP_RATIO),
                     FMul(TrueDiv(p.two_fields, total), SUMMIT_OVERLAP_RATIO),
                     FMul(TrueDiv(p.one_field, total), SUMMIT_OVERLAP_RATIO))

PlanRaised(p) ==
    IsNaR(p.all_fields) \/ IsNaR(p.three_fields) \/ IsNaR(p.two_fields)
        \/ IsNaR(p.one_field)

(***************************************************************************)
(* _apply_overlap_to_summit_batch, lines 309-325: the category counts      *)
(***************************************************************************)
TargetOverlap_rounding_up(len, ratio) ==
    IntOf(RAdd(RMul(RInt(len), ratio), <<ratio[2] - 1, ratio[2]>>))

\* target_overlap = int(n * overlap_ratio)
TargetOverlap(len, ratio) == IntOf(RMul(RInt(len), ratio))

NoCounts ==
    [computed |-> FALSE, target_overlap |-> 0, c_all |-> 0, c_three |-> 0,
     c_two |-> 0, c_one |-> 0]

CategoryCounts_no_remainder(target, p) ==
    [computed |-> TRUE, target_overlap |-> target,
     c_all |-> IntOf(RMul(RInt(target), p.all_fields)),
     c_three |-> IntOf(RMul(RInt(target), p.three_fields)),
     c_two |-> IntOf(RMul(RInt(target), p.two_fields)),
     c_one |-> IntOf(RMul(RInt(target), p.one_field))]

\* lines 318-325; p is the normalized plan
CategoryCounts(target, p) ==
    LET c_all == IntOf(RMul(RInt(target), p.all_fields))
        c_three == IntOf(RMul(RInt(target), p.three_fields))
        c_two == IntOf(RMul(RInt(target), p.two_fields))
        c_one == IntOf(RMul(RInt(target), p.one_field))
        used == c_all + c_three + c_two + c_one
    IN [computed |-> TRUE, target_overlap |-> target,
        c_all |-> c_all, c_three |-> c_three, c_two |-> c_two,
        c_one |-> c_one + (target - used)]

empty_input_ignoring_pool(len, pool_len) == len = 0

\* line 306
empty_input(len, pool_len) == len = 0 \/ pool_len = 0

\* lines 306-325: the early returns and the counts, from the lengths of the
\* two frames.  ret: the function has returned at line 307 or 313.
apply_overlap_counts(len, pool_len, ratio, p) ==
    IF empty_input(len, pool_len)
    THEN [ret |-> TRUE, exc |-> "", plan |-> p, counts |-> NoCounts]
    ELSE LET np == normalized(p) IN
         IF PlanRaised(np)
         THEN [ret |-> TRUE, exc |-> "ZeroDivisionError", plan |-> p,
               counts |-> NoCounts]
         ELSE LET target == TargetOverlap(len, ratio) IN
              IF target <= 0
              THEN [ret |-> TRUE, exc |-> "", plan |-> np, counts |-> NoCounts]
              ELSE [ret |-> FALSE, exc |-> "", plan |-> np,
                    counts |-> CategoryCounts(target, np)]

(***************************************************************************)
(* Strings and frames                                                      *)
(***************************************************************************)
None == <<"None">>
NONE == <<"NONE">>

Range(s) == {s[k] : k \in 1..Len(s)}
Last(s) == s[Len(s)]
Front(s) == SubSeq(s, 1, Len(s) - 1)

RECURSIVE SumSeq(_)
SumSeq(s) == IF s = <<>> THEN 0 ELSE Head(s) + SumSeq(Tail(s))

\* str.upper() on the letters that occur in the source names
Upper(ch) ==
    CASE ch = "r" -> "R" [] ch = "o" -> "O" [] ch = "u" -> "U"
      [] ch = "m" -> "M" [] OTHER -> ch

CroceviaName == <<"C", "r", "o", "c", "e", "v", "i", "a">>
SummitName == <<"S", "u", "m", "m", "i", "t", " ", "S", "p", "o", "r", "t", "s">>

\* source_name[:3].upper()
Prefix3(source_name) ==
    LET head == SubSeq(source_name, 1, IF Len(source_name) < 3 THEN Len(source_name) ELSE 3)
    IN [k \in 1..Len(head) |-> Upper(head[k])]

RECURSIVE Digits(_)
Digits(k) == IF k < 10 THEN <<ToString(k)>> ELSE Append(Digits(k \div 10), ToString(k % 10))

\* decimal, left-padded with zeros to a width of at least `width`
PadZero(k, width) ==
    LET d == Digits(k) IN
    IF Len(d) >= width THEN d ELSE [j \in 1..(width - Len(d)) |-> "0"] \o d

\* f"{k:010d}"
Pad10(k) == PadZero(k, 10)

\* f"{source_name[:3].upper()}-{start_index + i:010d}"
CustomerId(source_name, k) == Prefix3(source_name) \o <<"-">> \o Pad10(k)

(***************************************************************************)
(* _apply_overlap_to_summit_batch, lines 327-389: copying                  *)
(***************************************************************************)
\* the order of Python's string comparison on the column names copied
AlphabeticalRank(f) ==
    CASE f = "BIRTH_DATE" -> 1 [] f = "EMAIL" -> 2 [] f = "FIRST_NAME" -> 3
      [] f = "LAST_NAME" -> 4 [] f = "PHONE" -> 5 [] f = "POSTAL_CODE" -> 6
      [] f = "STREET" -> 7 [] OTHER -> 8

RECURSIVE InsertSorted(_, _)
InsertSorted(s, f) ==
    IF s = <<>> THEN <<f>>
    ELSE IF AlphabeticalRank(f) < AlphabeticalRank(Head(s)) THEN <<f>> \o s
    ELSE <<Head(s)>> \o InsertSorted(Tail(s), f)

RECURSIVE sorted(_)
sorted(fields) ==
    IF fields = <<>> THEN <<>> ELSE InsertSorted(sorted(Front(fields)), Last(fields))

\* "+".join(names)
RECURSIVE JoinPlus(_)
JoinPlus(names) ==
    IF Len(names) <= 1 THEN names
    ELSE <<Head(names), "+">> \o JoinPlus(Tail(names))

OverlapTag_unsorted(fields) == IF fields # <<>> THEN JoinPlus(fields) ELSE NONE

\* line 331
OverlapTag(fields) == IF fields # <<>> THEN JoinPlus(sorted(fields)) ELSE NONE

copy_fields_from_own_row(df, dst_idx, src_row, fields) ==
    [df EXCEPT ![dst_idx + 1] =
        [c \in DOMAIN @ |-> IF c = "OVERLAP_TYPE" THEN OverlapTag(fields) ELSE @[c]]]

copy_fields_rewriting_source(df, dst_idx, src_row, fields) ==
    [df EXCEPT ![dst_idx + 1] =
        [c \in DOMAIN @ |->
            IF c = "OVERLAP_TYPE" THEN OverlapTag(fields)
            ELSE IF c = "SOURCE" THEN <<"Crocevia">>
            ELSE IF c \in Range(fields) THEN src_row[c]
            ELSE @[c]]]

\* lines 328-331
copy_fields(df, dst_idx, src_row, fields) ==
    [df EXCEPT ![dst_idx + 1] =
        [c \in DOMAIN @ |->
            IF c = "OVERLAP_TYPE" THEN OverlapTag(fields)
            ELSE IF c \in Range(fields) THEN src_row[c]
            ELSE @[c]]]

ALL_FIELDS ==
    <<"FIRST_NAME", "LAST_NAME", "BIRTH_DATE", "PHONE", "EMAIL", "STREET", "POSTAL_CODE">>

triplets ==
    << <<"FIRST_NAME", "LAST_NAME", "BIRTH_DATE">>,
       <<"FIRST_NAME", "LAST_NAME", "PHONE">>,
       <<"FIRST_NAME", "BIRTH_DATE", "PHONE">>,
       <<"LAST_NAME", "BIRTH_DATE", "PHONE">> >>

pairs ==
    << <<"FIRST_NAME", "LAST_NAME">>,
       <<"FIRST_NAME", "BIRTH_DATE">>,
       <<"FIRST_NAME", "PHONE">>,
       <<"LAST_NAME", "BIRTH_DATE">>,
       <<"LAST_NAME", "PHONE">>,
       <<"BIRTH_DATE", "PHONE">> >>

singles == <<"FIRST_NAME", "LAST_NAME", "BIRTH_DATE", "PHONE", "EMAIL", "POSTAL_CODE">>

\* The state of the four loops: the frame, remaining_indices, ptr, and the
\* record of what each iteration popped and copied.
LoopState(df, remaining_indices) ==
    [df |-> df, remaining_indices |-> remaining_indices, ptr |-> 0,
     popped |-> <<>>, picked |-> <<>>]

\* One of the loops at lines 338, 354, 371 and 381.  `field_lists` holds, per
\* iteration, the field list that iteration copies (the outcome of its
\* random.choice); src_sample holds row labels of the pool.
RECURSIVE overlap_loop_without_pop(_, _, _, _, _, _)
overlap_loop_without_pop(st, count, category, field_lists, src_sample, pool) ==
    IF count <= 0 \/ st.remaining_indices = <<>> THEN st
    ELSE LET idx == Last(st.remaining_indices)
             src == src_sample[st.ptr + 1]
             fields == Head(field_lists)
         IN overlap_loop_without_pop(
                [df |-> copy_fields(st.df, idx, pool[src + 1], fields),
                 remaining_indices |-> st.remaining_indices,
                 ptr |-> st.ptr + 1,
                 popped |-> Append(st.popped, idx),
                 picked |-> Append(st.picked,
                     [idx |-> idx, category |-> category, fields |-> fields, src |-> src])],
                count - 1, category, Tail(field_lists), src_sample, pool)

RECURSIVE overlap_loop(_, _, _, _, _, _)
overlap_loop(st, count, category, field_lists, src_sample, pool) ==
    IF count <= 0 \/ st.remaining_indices = <<>> THEN st
    ELSE LET idx == Last(st.remaining_indices)
             src == src_sample[st.ptr + 1]
             fields == Head(field_lists)
         IN overlap_loop(
                [df |-> copy_fields(st.df, idx, pool[src + 1], fields),
                 remaining_indices |-> Front(st.remaining_indices),
                 ptr |-> st.ptr + 1,
                 popped |-> Append(st.popped, idx),
                 picked |-> Append(st.picked,
                     [idx |-> idx, category |-> category, fields |-> fields, src |-> src])],
                count - 1, category, Tail(field_lists), src_sample, pool)

\* The outcomes of the random draws of one call: rnd.permutation is
\* np.random.permutation(n), rnd.src_sample the row labels drawn by
\* crocevia_pool_df.sample(n=target_overlap, replace=True), and rnd.three,
\* rnd.two, rnd.one the positions drawn by random.choice in each loop.
apply_overlap_loops(df, pool, c, rnd) ==
    LET indices == SubSeq(rnd.permutation, 1, c.target_overlap)
        s0 == LoopState(df, indices)
        s1 == overlap_loop(s0, c.c_all, "all_fields",
                           [k \in 1..c.c_all |-> ALL_FIELDS], rnd.src_sample, pool)
        s2 == overlap_loop(s1, c.c_three, "three_fields",
                           [k \in 1..c.c_three |-> triplets[rnd.three[k]]],
                           rnd.src_sample, pool)
        s3 == overlap_loop(s2, c.c_two, "two_fields",
                           [k \in 1..c.c_two |-> pairs[rnd.two[k]]],
                           rnd.src_sample, pool)
        s4 == overlap_loop(s3, c.c_one, "one_field",
                           [k \in 1..c.c_one |-> <<singles[rnd.one[k]]>>],
                           rnd.src_sample, pool)
    IN s4

\* All outcomes of the random draws for a frame of `len` rows, a pool of
\* `pool_len` rows and the counts c.
IndexPermutations(len) ==
    {q \in [1..len -> 0..(len - 1)] : \A a, b \in 1..len : a # b => q[a] # q[b]}

RandomDraws(len, pool_len, c) ==
    [permutation : IndexPermutations(len),
     src_sample : [1..c.target_overlap -> 0..(pool_len - 1)],
     three : [1..c.c_three -> 1..Len(triplets)],
     two : [1..c.c_two -> 1..Len(pairs)],
     one : [1..c.c_one -> 1..Len(singles)]]

(***************************************************************************)
(* Field value providers: _sanitize_for_email, _generate_emails,           *)
(* _generate_french_phones.  Names, emails and phones are sequences of     *)
(* characters; an accented letter is written as one token ("e_acute").     *)
(***************************************************************************)
DigitChars == {"0", "1", "2", "3", "4", "5", "6", "7", "8", "9"}
AsciiLowercase ==
    {"a", "b", "c", "d", "e", "f", "g", "h", "i", "j", "k", "l", "m",
     "n", "o", "p", "q", "r", "s", "t", "u", "v", "w", "x", "y", "z"}

FRENCH_EMAIL_DOMAINS ==
    <<"gmail.com", "orange.fr", "free.fr", "wanadoo.fr", "sfr.fr", "laposte.net">>

\* str.lower() on the capitals that occur in the name tables
Lower(ch) ==
    CASE ch = "A" -> "a" [] ch = "B" -> "b" [] ch = "D" -> "d" [] ch = "G" -> "g"
      [] ch = "J" -> "j" [] ch = "L" -> "l" [] ch = "Z" -> "z" [] OTHER -> ch

\* the chain of str.replace at lines 104-105; "" stands for a removed character
Unaccent(ch) ==
    CASE ch = "'" -> ""
      [] ch = "c_cedilla" -> "c"
      [] ch \in {"e_acute", "e_grave", "e_diaeresis"} -> "e"
      [] ch \in {"a_grave", "a_circumflex"} -> "a"
      [] ch \in {"i_circumflex", "i_diaeresis"} -> "i"
      [] ch = "o_circumflex" -> "o"
      [] ch = "u_circumflex" -> "u"
      [] OTHER -> ch

EmailAllowed == AsciiLowercase \cup DigitChars \cup {".", "-", "_"}

\* _sanitize_for_email
sanitize_for_email(local) ==
    SelectSeq([k \in 1..Len(local) |-> Unaccent(Lower(local[k]))],
              LAMBDA ch : ch \in EmailAllowed)

\* _generate_emails; draw.name_based[i]: random.random() < 0.7,
\* draw.number[i]: random.randint(1, 9999), draw.domain[i]: the position
\* random.choice takes in FRENCH_EMAIL_DOMAINS
generate_emails(first_names, last_names, draw) ==
    [i \in 1..(IF Len(first_names) < Len(last_names) THEN Len(first_names)
                                                      ELSE Len(last_names)) |->
        LET fn == first_names[i]
            ln == last_names[i]
            local == IF draw.name_based[i]
                     THEN sanitize_for_email(fn \o <<".">> \o ln)
                     ELSE sanitize_for_email(fn \o ln \o Digits(draw.number[i]))
        IN local \o <<"@", FRENCH_EMAIL_DOMAINS[draw.domain[i]]>>]

PhoneFirstDigits == <<6, 7, 1, 2, 3, 4, 5, 9>>

\* make_phone: "0X XX XX XX XX" from the first digit and the eight others
make_phone(first_digit, rest) ==
    <<"0", ToString(first_digit), " ", rest[1], rest[2], " ", rest[3], rest[4], " ",
      rest[5], rest[6], " ", rest[7], rest[8]>>

\* _generate_french_phones.  draw.unique_list: list(unique_set), the
\* int(n * unique_ratio) distinct numbers the while loop collects;
\* draw.fill: the positions random.choices takes in unique_list;
\* draw.shuffle: the order random.shuffle leaves (positions of the list).
\* random.choices raises IndexError on an empty unique_list.
generate_french_phones(count, unique_ratio, draw) ==
    LET unique_count == IntOf(RMul(RInt(count), unique_ratio))
        unique_list == SubSeq(draw.unique_list, 1, unique_count)
        remaining == count - Len(unique_list)
    IN IF remaining > 0 /\ unique_list = <<>>
       THEN [exc |-> "IndexError", phones |-> <<>>]
       ELSE LET phones == unique_list \o [k \in 1..remaining |-> unique_list[draw.fill[k]]]
            IN [exc |-> "", phones |-> [k \in 1..count |-> phones[draw.shuffle[k]]]]

(***************************************************************************)
(* Data loaders.  The two source tables are given by their k-th row; the   *)
(* query "ORDER BY RANDOM() LIMIT count" returns min(count, table rows)    *)
(* rows, here the rows that follow position `offset` cyclically.           *)
(***************************************************************************)
Min(a, b) == IF a < b THEN a ELSE b

FirstNames ==
    << <<"L", "e_acute", "a">>, <<"Z", "o", "e_diaeresis">>,
       <<"J", "e", "a", "n", "-", "L", "u", "c">> >>
LastNames ==
    << <<"D", "'", "A", "r", "c">>, <<"L", "e", " ", "G", "a", "l", "l">>,
       <<"B", "e_circumflex", "c", "h", "e">> >>

\* row k of SS_101.SOURCE_DATA.FRENCH_PEOPLE
FRENCH_PEOPLE(k) ==
    [GENDER |-> IF k % 2 = 0 THEN <<"F">> ELSE <<"M">>,
     FIRST_NAME |-> FirstNames[(k % 3) + 1],
     LAST_NAME |-> LastNames[((k \div 3) % 3) + 1],
     BIRTH_DATE |-> <<"19", ToString(50 + (k % 40)), "-01-01">>]

load_people(count, table_rows, offset) ==
    [i \in 1..Min(count, table_rows) |-> FRENCH_PEOPLE((offset + i - 1) % table_rows)]

\* str(None), the text astype(str) gives a missing value of an object column
NoneText == <<"N", "o", "n", "e">>

\* row k of SS_101.SOURCE_DATA.ADRESSES_FRANCE (CODE_POSTAL is never NULL
\* in the result, line 231)
ADRESSES_FRANCE(k) ==
    [NUMERO |-> IF k % 4 = 3 THEN None ELSE Digits(k + 1),
     NOM_VOIE |-> IF k % 5 = 4 THEN None ELSE <<"r", "u", "e", " ">> \o Digits(k),
     CODE_POSTAL |-> PadZero(75000 + (k % 20), 5),
     LON |-> <<"lon", ToString(k)>>,
     LAT |-> <<"lat", ToString(k)>>]

astype_str(v) == IF v = None THEN NoneText ELSE v

compose_street(num, voie) ==
    IF num # None /\ num # <<>> /\ num # NoneText
       /\ voie # None /\ voie # <<>> /\ voie # NoneText
    THEN num \o <<" ">> \o voie
    ELSE IF voie # None /\ voie # <<>> /\ voie # NoneText THEN voie ELSE None

load_addresses(count, table_rows, offset) ==
    [i \in 1..Min(count, table_rows) |->
        LET a == ADRESSES_FRANCE((offset + i - 1) % table_rows)
        IN [STREET |-> compose_street(astype_str(a.NUMERO), astype_str(a.NOM_VOIE)),
            POSTAL_CODE |-> a.CODE_POSTAL,
            LATITUDE |-> a.LAT,
            LONGITUDE |-> a.LON]]

(***************************************************************************)
(* Record synthesis: _safe_choice, the row loop of _build_base_batch,      *)
(* _inject_missingness                                                     *)
(***************************************************************************)
\* _safe_choice; positions: the positions random.sample (distinct) or
\* random.choices takes in seq
safe_choice(seq, size, positions) ==
    IF seq = <<>> THEN <<>> ELSE [k \in 1..size |-> seq[positions[k]]]

NoAddress ==
    [STREET |-> None, POSTAL_CODE |-> None, LATITUDE |-> None, LONGITUDE |-> None]

\* lines 259-266; draw.pad / draw.addr_sample: the positions drawn
address_records(addr_df, size, draw) ==
    LET addr_take == Min(Len(addr_df), size)
    IN IF addr_take < size
       THEN addr_df \o safe_choice(addr_df, size - addr_take, draw.pad)
       ELSE [k \in 1..size |-> addr_df[draw.addr_sample[k]]]

\* lines 268-292
base_rows(people_df, addr_records, emails, phones, source_name, start) ==
    [k \in 1..Len(people_df) |->
        LET i == k - 1
            addr == IF i < Len(addr_records) THEN addr_records[k] ELSE NoAddress
        IN [CUSTOMER_ID |-> CustomerId(source_name, start + i),
            FIRST_NAME |-> people_df[k].FIRST_NAME,
            LAST_NAME |-> people_df[k].LAST_NAME,
            GENDER |-> people_df[k].GENDER,
            BIRTH_DATE |-> people_df[k].BIRTH_DATE,
            EMAIL |-> emails[k],
            PHONE |-> phones[k],
            STREET |-> addr.STREET,
            POSTAL_CODE |-> addr.POSTAL_CODE,
            LATITUDE |-> addr.LATITUDE,
            LONGITUDE |-> addr.LONGITUDE,
            SOURCE |-> source_name,
            OVERLAP_TYPE |-> NONE]]

\* _inject_missingness; each mask is the set of row labels whose
\* np.random.rand value fell under the probability
inject_missingness(df, draw) ==
    [k \in 1..Len(df) |->
        [df[k] EXCEPT
            !.EMAIL = IF (k - 1) \in draw.email_mask THEN None ELSE @,
            !.PHONE = IF (k - 1) \in draw.phone_mask THEN None ELSE @,
            !.POSTAL_CODE = IF (k - 1) \in draw.postal_mask THEN None ELSE @,
            !.BIRTH_DATE = IF (k - 1) \in draw.birth_mask THEN None ELSE @]]

(***************************************************************************)
(* Duplicate injection: _add_duplicate_profiles (dual generator) and       *)
(* add_duplicate_customers (Crocevia generator)                            *)
(***************************************************************************)
\* f"{parts[0]}{digit}@{parts[1]}" when email.split("@") has two parts
tweak_email_at_the_end(email, digit) == email \o <<ToString(digit)>>
tweak_email(email, digit) ==
    LET ats == {k \in 1..Len(email) : email[k] = "@"}
    IN IF Cardinality(ats) = 1
       THEN LET a == CHOOSE k \in ats : TRUE
            IN SubSeq(email, 1, a - 1) \o <<ToString(digit)>> \o SubSeq(email, a, Len(email))
       ELSE email

\* lines 186-196: the last digit replaced, the first ten digits regrouped;
\* with fewer than ten digits the f-string raises and the phone is kept
tweak_phone(phone, digit) ==
    LET found == SelectSeq(phone, LAMBDA ch : ch \in DigitChars)
        digits == IF found = <<>> THEN found
                  ELSE [found EXCEPT ![Len(found)] = ToString(digit)]
    IN IF Len(digits) < 10 THEN phone
       ELSE <<digits[1], digits[2], " ", digits[3], digits[4], " ", digits[5], digits[6],
              " ", digits[7], digits[8], " ", digits[9], digits[10]>>

\* one outcome of the random draws for one duplicate of _add_duplicate_profiles
ProfileTweak(email, email_digit, phone, phone_digit, postal, street) ==
    [email |-> email, email_digit |-> email_digit, phone |-> phone,
     phone_digit |-> phone_digit, blank_postal |-> postal, blank_street |-> street]

\* lines 180-201 for one row
duplicate_profile(row, t) ==
    [row EXCEPT
        !.EMAIL = IF @ # None /\ t.email THEN tweak_email(@, t.email_digit) ELSE @,
        !.PHONE = IF @ # None /\ t.phone THEN tweak_phone(@, t.phone_digit) ELSE @,
        !.POSTAL_CODE = IF t.blank_postal THEN None ELSE @,
        !.STREET = IF t.blank_street THEN None ELSE @]

DupMark == <<"_", "D", "U", "P">>

\* the identifier line 205 gives a duplicate
duplicate_profile_id(id, digit) == id \o DupMark \o <<ToString(digit)>>

\* _add_duplicate_profiles; draw.idxs: np.random.choice without
\* replacement, draw.tweaks: the draws of the loop, draw.suffix:
\* np.random.randint(0, 9, size), whose upper end is exclusive
add_duplicate_profiles(df, ratio, draw) ==
    LET count == IntOf(RMul(RInt(Len(df)), ratio))
    IN IF count <= 0 THEN df
       ELSE df \o [k \in 1..count |->
                     LET dup == duplicate_profile(df[draw.idxs[k] + 1], draw.tweaks[k])
                     IN [dup EXCEPT !.CUSTOMER_ID =
                                        duplicate_profile_id(@, draw.suffix[k])]]

DUPLICATE == <<"DUPLICATE">>

\* lines 280-295 of the Crocevia generator for one source row; a value is
\* falsy when it is None or the empty string
duplicate_customer(src_row, t) ==
    [src_row EXCEPT
        !.CUSTOMER_ID = @ \o DupMark,
        !.OVERLAP_TYPE = DUPLICATE,
        !.EMAIL = IF t.email /\ @ # None /\ @ # <<>>
                  THEN tweak_email(@, t.email_digit) ELSE @,
        !.PHONE = IF t.phone /\ @ # None /\ @ # <<>>
                  THEN Front(@) \o <<ToString(t.phone_digit)>> ELSE @]

\* add_duplicate_customers; draw.source_indices: np.random.choice without
\* replacement, draw.tweaks: the draws of the loop
add_duplicate_customers(customers_df, duplicate_pct, draw) ==
    LET duplicate_count == IntOf(RMul(RInt(Len(customers_df)), duplicate_pct))
    IN IF duplicate_count = 0 THEN customers_df
       ELSE customers_df \o [k \in 1..duplicate_count |->
                duplicate_customer(customers_df[draw.source_indices[k] + 1],
                                   draw.tweaks[k])]

\* _build_base_batch up to line 292: the list `rows`; an exception of a
\* provider leaves the call
build_rows(people_df, addr_df, source_name, start, draw) ==
    LET size == Len(people_df)
        addr_records == address_records(addr_df, size, draw)
        first_names == [k \in 1..size |-> people_df[k].FIRST_NAME]
        last_names == [k \in 1..size |-> people_df[k].LAST_NAME]
        emails == generate_emails(first_names, last_names, draw)
        phones == generate_french_phones(size, <<9, 10>>, draw)
    IN IF phones.exc # "" THEN [exc |-> phones.exc, rows |-> <<>>]
       ELSE [exc |-> "",
             rows |-> base_rows(people_df, addr_records, emails, phones.phones,
                                source_name, start)]

\* _build_base_batch: the rows, then lines 294-297
build_base_batch(people_df, addr_df, source_name, start, draw) ==
    LET built == build_rows(people_df, addr_df, source_name, start, draw)
    IN IF built.exc # "" THEN [exc |-> built.exc, df |-> <<>>]
       ELSE LET df == inject_missingness(built.rows, draw)
            IN [exc |-> "",
                df |-> add_duplicate_profiles(df, DUPLICATE_PROFILE_RATIO, draw)]

(***************************************************************************)
(* Inputs of the function-level specifications                             *)
(***************************************************************************)
Tenths(k) == <<k, 10>>

\* plans with weights 0/10 .. MaxWeight/10
WeightGrid == {Tenths(k) : k \in 0..MaxWeight}
GridPlans ==
    {OverlapPlan(a, t, w, o) : a \in WeightGrid, t \in WeightGrid,
                               w \in WeightGrid, o \in WeightGrid}
GridRatios == {Tenths(k) : k \in 0..10}

\* a base batch of k rows as _build_base_batch lays it out (lines 278-292):
\* labels 0..k-1, every OVERLAP_TYPE "NONE"; row 1 has lost its phone
SummitRow(i) ==
    [CUSTOMER_ID |-> CustomerId(SummitName, i),
     FIRST_NAME |-> <<"first", "s", ToString(i)>>,
     LAST_NAME |-> <<"last", "s", ToString(i)>>,
     GENDER |-> <<"F">>,
     BIRTH_DATE |-> <<"born", "s", ToString(i)>>,
     EMAIL |-> <<"s", ToString(i), "@", "free.fr">>,
     PHONE |-> IF i = 1 THEN None ELSE <<"06", "s", ToString(i)>>,
     STREET |-> <<"street", "s", ToString(i)>>,
     POSTAL_CODE |-> <<"75001">>,
     LATITUDE |-> <<"lat", "s", ToString(i)>>,
     LONGITUDE |-> <<"lon", "s", ToString(i)>>,
     SOURCE |-> SummitName,
     OVERLAP_TYPE |-> NONE]
SummitFrame(k) == [i \in 1..k |-> SummitRow(i - 1)]

\* a pool of k rows as the query at lines 441-447 returns it: the seven
\* columns of Crocevia rows; the rows share a last name, row 1 has no email
PoolRow(j) ==
    [FIRST_NAME |-> <<"first", "c", ToString(j)>>,
     LAST_NAME |-> <<"last", "c">>,
     BIRTH_DATE |-> <<"born", "c", ToString(j)>>,
     PHONE |-> <<"06", "c", ToString(j)>>,
     EMAIL |-> IF j = 1 THEN None ELSE <<"c", ToString(j), "@", "orange.fr">>,
     STREET |-> <<"street", "c", ToString(j)>>,
     POSTAL_CODE |-> <<"6900", ToString(j)>>]
PoolFrame(k) == [j \in 1..k |-> PoolRow(j - 1)]

ApplyRatios == {<<0, 1>>, <<1, 2>>, SUMMIT_OVERLAP_RATIO, <<1, 1>>}
ApplyPlans ==
    {DefaultPlan,
     OverlapPlan(Tenths(0), Tenths(0), Tenths(0), Tenths(0)),
     OverlapPlan(Tenths(1), Tenths(0), Tenths(0), Tenths(0)),
     OverlapPlan(Tenths(0), Tenths(1), Tenths(0), Tenths(0)),
     OverlapPlan(Tenths(0), Tenths(0), Tenths(1), Tenths(0)),
     OverlapPlan(Tenths(2), Tenths(1), Tenths(0), Tenths(0))}

(***************************************************************************)
(* Outcomes of the random draws                                            *)
(***************************************************************************)
\* the k-th number of the unique set under seed s (distinct for distinct k)
SeedPhone(k, s) ==
    make_phone(PhoneFirstDigits[((k + s) % Len(PhoneFirstDigits)) + 1],
               PadZero(12345 * k + s, 8))

\* One outcome of every draw of _build_base_batch on `size` people and
\* `addr_len` addresses, per seed s
BatchDraw(size, addr_len, s) ==
    LET unique_count == IntOf(RMul(RInt(size), <<9, 10>>))
        count == IntOf(RMul(RInt(size), DUPLICATE_PROFILE_RATIO))
    IN [pad |-> IF addr_len = 0 THEN <<>>
                ELSE [k \in 1..(size - Min(addr_len, size)) |-> ((k - 1 + s) % addr_len) + 1],
        addr_sample |-> IF addr_len = 0 THEN <<>>
                        ELSE [k \in 1..size |-> ((k - 1 + s) % addr_len) + 1],
        name_based |-> [i \in 1..size |-> (i + s) % 3 # 0],
        number |-> [i \in 1..size |-> 1 + ((37 * i + s) % 9999)],
        domain |-> [i \in 1..size |-> ((i + s) % Len(FRENCH_EMAIL_DOMAINS)) + 1],
        unique_list |-> [k \in 1..unique_count |-> SeedPhone(k, s)],
        fill |-> IF unique_count = 0 THEN <<>>
                 ELSE [k \in 1..(size - unique_count) |-> ((k + s) % unique_count) + 1],
        shuffle |-> [k \in 1..size |-> ((k - 1 + s) % size) + 1],
        email_mask |-> {i \in 0..(size - 1) : (i + s) % 7 = 3},
        phone_mask |-> {i \in 0..(size - 1) : (i + s) % 5 = 1},
        postal_mask |-> {i \in 0..(size - 1) : (i + s) % 10 = 2},
        birth_mask |-> {i \in 0..(size - 1) : (i + s) % 13 = 3},
        idxs |-> [k \in 1..count |-> (k - 1 + s * (size - 1)) % size],
        tweaks |-> [k \in 1..count |->
                      ProfileTweak((k + s) % 2 = 0, (k + s) % 10, (k + s) % 2 = 1,
                                   (3 * k + s) % 10, (k + s) % 5 = 0, (k + s) % 10 = 2)],
        suffix |-> [k \in 1..count |-> (k + 7 * s) % 9]]

\* One outcome of every draw of _apply_overlap_to_summit_batch, per seed s
OverlapDraw(len, pool_len, c, s) ==
    [permutation |-> [k \in 1..len |-> (k - 1 + 7 * s) % len],
     src_sample |-> [k \in 1..c.target_overlap |-> (k + s) % pool_len],
     three |-> [k \in 1..c.c_three |-> ((k + s) % Len(triplets)) + 1],
     two |-> [k \in 1..c.c_two |-> ((k + s) % Len(pairs)) + 1],
     one |-> [k \in 1..c.c_one |-> ((k + s) % Len(singles)) + 1]]

\* digits drawn by random.randint(0, 9) in a tweak, and by
\* np.random.randint(0, 9) for the suffix: the two ends of each range
TweakDigits == {0, 9}
SuffixDigits == {0, 8}

ProfileTweaks ==
    {ProfileTweak(e, ed, p, pd, bp, bs) :
        e \in BOOLEAN, ed \in TweakDigits, p \in BOOLEAN, pd \in TweakDigits,
        bp \in BOOLEAN, bs \in BOOLEAN}

\* sequences of `count` distinct row labels of a frame of `len` rows
LabelsWithReplacement(len, count) == [1..count -> 0..(len - 1)]
DistinctLabels(len, count) ==
    {q \in [1..count -> 0..(len - 1)] : \A a, b \in 1..count : a # b => q[a] # q[b]}

\* all outcomes of the draws of _add_duplicate_profiles
ProfileDupDraws(len, count) ==
    [idxs : DistinctLabels(len, count),
     tweaks : [1..count -> ProfileTweaks],
     suffix : [1..count -> SuffixDigits]]

\* all outcomes of the draws of add_duplicate_customers
CustomerDupDraws(len, count) ==
    [source_indices : DistinctLabels(len, count),
     tweaks : [1..count -> [email : BOOLEAN, email_digit : TweakDigits,
                            phone : BOOLEAN, phone_digit : TweakDigits]]]

\* a frame of k rows as it stands at line 295, before _add_duplicate_profiles
ProfileFrame(k) ==
    LET people == load_people(k, PeopleRows, 0)
        addr_df == load_addresses(IntOf(RMul(RInt(k), <<6, 10>>)), AddressRows, 0)
        draw == BatchDraw(k, Len(addr_df), 0)
        first_names == [i \in 1..Len(people) |-> people[i].FIRST_NAME]
        last_names == [i \in 1..Len(people) |-> people[i].LAST_NAME]
    IN inject_missingness(
          base_rows(people, address_records(addr_df, k, draw),
                    generate_emails(first_names, last_names, draw),
                    [i \in 1..k |-> SeedPhone(i, 0)], CroceviaName, 0),
          draw)

OVERLAP_TYPES == <<"NONE", "TRIPLE", "EMAIL_PHONE", "EMAIL", "PHONE", "NAME">>

\* the replace chain of line 186 of the Crocevia generator
CroceviaUnaccent(ch) ==
    CASE ch = "'" -> "" [] ch = "c_cedilla" -> "c" [] ch = "e_acute" -> "e" [] OTHER -> ch

\* lines 184-191 of the Crocevia generator: the email of a customer whose
\* email is not copied; name_based: random.random() < 0.7, fake_email: the
\* value of fake.email(), domain: the position random.choice takes in
\* french_domains (the same list as FRENCH_EMAIL_DOMAINS)
crocevia_email(first_name, last_name, name_based, fake_email, domain) ==
    LET name == first_name \o <<".">> \o last_name
        replaced == SelectSeq([k \in 1..Len(name) |-> CroceviaUnaccent(Lower(name[k]))],
                              LAMBDA ch : ch # "")
        ats == {k \in 1..Len(fake_email) : fake_email[k] = "@"}
        local_part == IF ats = {} THEN fake_email
                      ELSE SubSeq(fake_email, 1,
                                  (CHOOSE k \in ats : \A o \in ats : k <= o) - 1)
    IN (IF name_based THEN replaced ELSE local_part)
          \o <<"@", FRENCH_EMAIL_DOMAINS[domain]>>

\* row i of a frame returned by generate_crocevia_customers (lines 237-254
\* of the Crocevia generator): row 2 has no email, row 3 no phone
CroceviaCustomer(i) ==
    [CUSTOMER_ID |-> <<"C", "R", "V", "-">> \o Pad10(i),
     FIRST_NAME |-> FirstNames[(i % 3) + 1],
     LAST_NAME |-> LastNames[((i \div 3) % 3) + 1],
     EMAIL |-> IF i = 2 THEN None
               ELSE crocevia_email(FirstNames[(i % 3) + 1], LastNames[((i \div 3) % 3) + 1],
                                   i % 2 = 0,
                                   <<"c", ToString(i), "@", "example.org">>, (i % 6) + 1),
     PHONE |-> IF i = 3 THEN None ELSE <<"+", "3", "3", " ">> \o SeedPhone(i, 1),
     STREET |-> IF i % 2 = 0 THEN <<"street", ToString(i)>> ELSE None,
     CITY |-> IF i % 2 = 0 THEN <<"Paris">> ELSE None,
     POSTAL_CODE |-> IF i % 3 = 1 THEN None ELSE PadZero(69000 + i, 5),
     LATITUDE |-> IF i % 2 = 0 THEN <<"lat", ToString(i)>> ELSE None,
     LONGITUDE |-> IF i % 2 = 0 THEN <<"lon", ToString(i)>> ELSE None,
     DATE_OF_BIRTH |-> IF i % 2 = 1 THEN None ELSE <<"1980-02-0", ToString(i % 10)>>,
     REGISTRATION_DATE |-> <<"2021-03-0", ToString(i % 10)>>,
     MARKETING_OPT_IN |-> i % 2 = 0,
     OVERLAP_TYPE |-> <<OVERLAP_TYPES[(i % Len(OVERLAP_TYPES)) + 1]>>]
CustomerFrame(k) == [i \in 1..k |-> CroceviaCustomer(i - 1)]

DupRatios == {<<0, 1>>, DUPLICATE_PROFILE_RATIO, <<1, 10>>, <<1, 2>>}

\* a phone value with four digits, as a source table may hold one
MalformedPhone == <<"0", "6", " ", "1", "2">>

\* the frame with that value as the phone of its first row
WithMalformedPhone(df) ==
    [i \in 1..Len(df) |-> IF i = 1 THEN [df[i] EXCEPT !.PHONE = MalformedPhone] ELSE df[i]]

\* no call of _generate_french_phones is observed
NoPhones ==
    /\ phone_count = 0
    /\ phone_unique_ratio = <<9, 10>>
    /\ phone_list = <<>>

\* no call of _build_base_batch is observed
NoBuilder ==
    /\ build_people_df = <<>>
    /\ build_addr_df = <<>>
    /\ base_records = <<>>

\* no call of generate_crocevia_customers is observed
NoCustomers ==
    /\ num_customers = 0
    /\ source_sample = <<>>
    /\ address_table_rows = 0
    /\ triple_indices = {}
    /\ email_indices = {}
    /\ phone_indices = {}
    /\ name_indices = {}
    /\ address_indices = {}
    /\ french_addresses = <<>>
    /\ customers = <<>>

\* no orchestration is under way in a function-level specification
NoOrchestration ==
    /\ total_rows = [crocevia |-> 0, summit |-> 0]
    /\ generated = 0
    /\ start_index = 0
    /\ first_batch = TRUE
    /\ batch = 0
    /\ batch_df = <<>>
    /\ input_df = <<>>
    /\ duplicate_ratio = DUPLICATE_PROFILE_RATIO
    /\ CROCEVIA_TABLE = <<>>
    /\ SUMMIT_TABLE = <<>>
    /\ batches_written = [crocevia |-> 0, summit |-> 0]
    /\ rng = 0
    /\ query_order = 0
    /\ people_table_rows = PeopleRows
    /\ NoBuilder
    /\ NoCustomers
    /\ NoPhones

(***************************************************************************)
(* SpecPlan: the count computation of the applicator on a frame of n rows  *)
(* (the frame is represented by its length) and a one-row pool             *)
(***************************************************************************)
InitPlan ==
    /\ mode = "plan"
    /\ pc = "call"
    /\ n \in (0..MaxPlanBatch) \cup {1000}
    /\ overlap_ratio \in GridRatios
    /\ plan \in GridPlans
    /\ local_plan = plan
    /\ summit_df = <<>>
    /\ crocevia_pool_df = PoolFrame(1)
    /\ counts = NoCounts
    /\ popped = <<>>
    /\ picked = <<>>
    /\ err = ""
    /\ NoOrchestration

\* _apply_overlap_to_summit_batch up to line 325
PlanCounts ==
    /\ mode = "plan"
    /\ pc = "call"
    /\ LET h == apply_overlap_counts(n, Len(crocevia_pool_df), overlap_ratio, plan)
       IN /\ counts' = h.counts
          /\ local_plan' = h.plan
          /\ err' = h.exc
    /\ pc' = "return"
    /\ UNCHANGED <<mode, summit_df, crocevia_pool_df, overlap_ratio, plan, n,
                   popped, picked, orchestration, builder, customer_generation>>

NextPlan == PlanCounts

SpecPlan == InitPlan /\ [][NextPlan]_vars

(***************************************************************************)
(* SpecApply: one call of _apply_overlap_to_summit_batch                   *)
(***************************************************************************)
InitApply ==
    /\ mode = "apply"
    /\ pc = "call"
    /\ summit_df \in {SummitFrame(k) : k \in 0..MaxBatch}
    /\ crocevia_pool_df \in {PoolFrame(k) : k \in 0..MaxPool}
    /\ overlap_ratio \in ApplyRatios
    /\ plan \in ApplyPlans
    /\ local_plan = plan
    /\ n = Len(summit_df)
    /\ counts = NoCounts
    /\ popped = <<>>
    /\ picked = <<>>
    /\ err = ""
    /\ NoOrchestration

\* the call returns at line 307 or 313, or normalized() raises
ApplyReturnsEarly ==
    /\ mode = "apply"
    /\ pc = "call"
    /\ LET h == apply_overlap_counts(Len(summit_df), Len(crocevia_pool_df),
                                     overlap_ratio, plan)
       IN /\ h.ret
          /\ counts' = h.counts
          /\ local_plan' = h.plan
          /\ err' = h.exc
    /\ pc' = "return"
    /\ UNCHANGED <<mode, summit_df, crocevia_pool_df, overlap_ratio, plan, n,
                   popped, picked, orchestration, builder, customer_generation>>

\* the call runs to line 389; sample() at line 334 raises on an empty pool
ApplyOverlap ==
    /\ mode = "apply"
    /\ pc = "call"
    /\ LET h == apply_overlap_counts(Len(summit_df), Len(crocevia_pool_df),
                                     overlap_ratio, plan)
       IN /\ ~h.ret
          /\ counts' = h.counts
          /\ local_plan' = h.plan
          /\ IF Len(crocevia_pool_df) = 0
             THEN /\ err' = "ValueError"
                  /\ UNCHANGED <<summit_df, popped, picked>>
             ELSE /\ err' = ""
                  /\ \E rnd \in RandomDraws(Len(summit_df), Len(crocevia_pool_df), h.counts) :
                        \E s \in {apply_overlap_loops(summit_df, crocevia_pool_df,
                                                      h.counts, rnd)} :
                           /\ summit_df' = s.df
                           /\ popped' = s.popped
                           /\ picked' = s.picked
    /\ pc' = "return"
    /\ UNCHANGED <<mode, crocevia_pool_df, overlap_ratio, plan, n, orchestration, builder, customer_generation>>

NextApply == ApplyReturnsEarly \/ ApplyOverlap

SpecApply == InitApply /\ [][NextApply]_vars

(***************************************************************************)
(* SpecDup: one call of a duplicate injection                              *)
(***************************************************************************)
NoApplicator ==
    /\ summit_df = <<>>
    /\ crocevia_pool_df = <<>>
    /\ overlap_ratio = SUMMIT_OVERLAP_RATIO
    /\ plan = DefaultPlan
    /\ local_plan = DefaultPlan
    /\ n = 0
    /\ counts = NoCounts
    /\ popped = <<>>
    /\ picked = <<>>

InitDup ==
    /\ mode \in {"add_duplicate_profiles", "add_duplicate_customers"}
    /\ pc = "call"
    /\ err = ""
    /\ NoApplicator
    /\ total_rows = [crocevia |-> 0, summit |-> 0]
    /\ generated = 0
    /\ start_index = 0
    /\ first_batch = TRUE
    /\ batch = 0
    /\ \E frame \in IF mode = "add_duplicate_profiles"
                     THEN {ProfileFrame(k) : k \in 0..MaxDupBatch}
                     ELSE {CustomerFrame(k) : k \in 0..MaxDupBatch} :
          input_df \in {frame, WithMalformedPhone(frame)}
    /\ batch_df = input_df
    /\ duplicate_ratio \in DupRatios
    /\ CROCEVIA_TABLE = <<>>
    /\ SUMMIT_TABLE = <<>>
    /\ batches_written = [crocevia |-> 0, summit |-> 0]
    /\ rng = 0
    /\ query_order = 0
    /\ people_table_rows = PeopleRows
    /\ NoBuilder
    /\ NoCustomers
    /\ NoPhones

\* _add_duplicate_profiles(df, ratio)
AddDuplicateProfiles ==
    /\ mode = "add_duplicate_profiles"
    /\ pc = "call"
    /\ \E draw \in ProfileDupDraws(Len(input_df),
                                   IntOf(RMul(RInt(Len(input_df)), duplicate_ratio))) :
          batch_df' = add_duplicate_profiles(input_df, duplicate_ratio, draw)
    /\ pc' = "return"
    /\ UNCHANGED <<mode, err, applicator, total_rows, query_order, people_table_rows, builder, customer_generation,
                   phone_count, phone_unique_ratio, phone_list, generated, start_index,
                   first_batch, batch, input_df, duplicate_ratio, CROCEVIA_TABLE,
                   SUMMIT_TABLE, batches_written, rng>>

\* add_duplicate_customers(customers_df, duplicate_pct)
AddDuplicateCustomers ==
    /\ mode = "add_duplicate_customers"
    /\ pc = "call"
    /\ \E draw \in CustomerDupDraws(Len(input_df),
                                    IntOf(RMul(RInt(Len(input_df)), duplicate_ratio))) :
          batch_df' = add_duplicate_customers(input_df, duplicate_ratio, draw)
    /\ pc' = "return"
    /\ UNCHANGED <<mode, err, applicator, total_rows, query_order, people_table_rows, builder, customer_generation,
                   phone_count, phone_unique_ratio, phone_list, generated, start_index,
                   first_batch, batch, input_df, duplicate_ratio, CROCEVIA_TABLE,
                   SUMMIT_TABLE, batches_written, rng>>

NextDup == AddDuplicateProfiles \/ AddDuplicateCustomers

SpecDup == InitDup /\ [][NextDup]_vars

(***************************************************************************)
(* SpecBuild: one call of _build_base_batch(people_df, addr_df, ...)       *)
(***************************************************************************)
\* sequences of `count` distinct positions of a list of `len` elements
DistinctPositions(len, count) ==
    {q \in [1..count -> 1..len] : \A a, b \in 1..count : a # b => q[a] # q[b]}

\* the positions _safe_choice may take in a list of `len` elements:
\* random.sample when size <= len, random.choices otherwise (lines 96-99)
SafeChoicePositions(len, size) ==
    IF len = 0 THEN {<<>>}
    ELSE IF size <= len THEN DistinctPositions(len, size)
    ELSE [1..size -> 1..len]

\* all outcomes of the address draws of a call (line 263, or line 266:
\* addr_df.sample(n=size) takes distinct rows), the other draws per seed
BuildDraws(size, addr_len) ==
    {[BatchDraw(size, addr_len, s) EXCEPT !.pad = pad, !.addr_sample = addr_sample] :
        s \in 0..MaxSeed,
        pad \in IF addr_len < size THEN SafeChoicePositions(addr_len, size - addr_len)
                ELSE {<<>>},
        addr_sample \in IF addr_len < size THEN {<<>>}
                        ELSE DistinctPositions(addr_len, size)}

InitBuild ==
    /\ mode = "build_base_batch"
    /\ pc = "call"
    /\ err = ""
    /\ NoApplicator
    /\ total_rows = [crocevia |-> 0, summit |-> 0]
    /\ generated = 0
    /\ start_index = 0
    /\ first_batch = TRUE
    /\ batch = 0
    /\ batch_df = <<>>
    /\ input_df = <<>>
    /\ duplicate_ratio = DUPLICATE_PROFILE_RATIO
    /\ CROCEVIA_TABLE = <<>>
    /\ SUMMIT_TABLE = <<>>
    /\ batches_written = [crocevia |-> 0, summit |-> 0]
    /\ rng = 0
    /\ query_order = 0
    /\ people_table_rows = PeopleRows
    /\ NoPhones
    /\ NoCustomers
    /\ build_people_df \in {load_people(k, PeopleRows, 0) : k \in 0..MaxBuild}
    /\ build_addr_df \in {load_addresses(k, AddressRows, 0) : k \in 0..MaxBuild}
    /\ base_records = <<>>

\* _build_base_batch(people_df, addr_df, "Crocevia", 0, total_needed)
BuildBaseBatch ==
    /\ mode = "build_base_batch"
    /\ pc = "call"
    /\ \E draw \in BuildDraws(Len(build_people_df), Len(build_addr_df)) :
          LET built == build_rows(build_people_df, build_addr_df, CroceviaName, 0, draw)
              returned == build_base_batch(build_people_df, build_addr_df, CroceviaName, 0,
                                           draw)
          IN /\ base_records' = built.rows
             /\ batch_df' = returned.df
             /\ err' = returned.exc
    /\ pc' = "return"
    /\ UNCHANGED <<mode, applicator, total_rows, query_order, people_table_rows,
                   build_people_df, build_addr_df, customer_generation, phone_count,
                   phone_unique_ratio, phone_list, generated, start_index, first_batch,
                   batch, input_df, duplicate_ratio, CROCEVIA_TABLE, SUMMIT_TABLE,
                   batches_written, rng>>

NextBuild == BuildBaseBatch

SpecBuild == InitBuild /\ [][NextBuild]_vars

(***************************************************************************)
(* SpecCustomers: one call of generate_crocevia_customers of the Crocevia  *)
(* generator (crocevia_crm_generator.py), with load_french_addresses       *)
(***************************************************************************)
\* lines 122-125 and 145
triple_match_count(num) == IntOf(RMul(RInt(num), <<20, 100>>))
email_overlap_count(num) == IntOf(RMul(RInt(num), <<60, 100>>))
phone_overlap_count(num) == IntOf(RMul(RInt(num), <<50, 100>>))
name_overlap_count(num) == IntOf(RMul(RInt(num), <<35, 100>>))
address_count(num) == IntOf(RMul(RInt(num), <<50, 100>>))

\* np.random.choice(list(pool), size=size, replace=False) as a set
IndexChoices(pool, size) == {c \in SUBSET pool : Cardinality(c) = size}

\* str(int(code)): the decimal digits without leading zeros
RECURSIVE StrOfInt(_)
StrOfInt(code) ==
    IF Len(code) > 1 /\ Head(code) = "0" THEN StrOfInt(Tail(code)) ELSE code

\* row k of the address query (lines 40-58) after the conversion of lines
\* 69-75: CONCAT(NUMERO, ' ', NOM_VOIE) or NOM_VOIE, NOM_COMMUNE,
\* str(int(CODE_POSTAL)), LAT, LON
french_address(k) ==
    LET a == ADRESSES_FRANCE(k)
    IN [street |-> IF a.NUMERO # None /\ a.NOM_VOIE # None
                   THEN a.NUMERO \o <<" ">> \o a.NOM_VOIE ELSE a.NOM_VOIE,
        city |-> <<"commune", ToString(k)>>,
        postal_code |-> StrOfInt(a.CODE_POSTAL),
        latitude |-> a.LAT,
        longitude |-> a.LON]

\* load_french_addresses; table_rows: the rows the WHERE clause keeps;
\* draw.duplicate_sources: the positions random.choices takes, draw.shuffle:
\* the order random.shuffle leaves
load_french_addresses(num_addresses, unique_pct, table_rows, draw) ==
    LET unique_count == IntOf(RMul(RInt(num_addresses), unique_pct))
        returned == Min(unique_count, table_rows)
        duplicate_count == num_addresses - unique_count
    IN IF returned = 0
       THEN [exc |-> "ValueError", addresses |-> <<>>]
       ELSE LET unique == [k \in 1..returned |-> french_address(k - 1)]
                all == unique \o [k \in 1..duplicate_count |->
                                     unique[draw.duplicate_sources[k]]]
            IN [exc |-> "",
                addresses |-> [k \in 1..Len(all) |-> all[draw.shuffle[k]]]]

\* one outcome of the draws of load_french_addresses per seed s
AddressDraw(returned, duplicate_count, s) ==
    [duplicate_sources |-> [k \in 1..duplicate_count |-> ((k - 1 + s) % returned) + 1],
     shuffle |-> [k \in 1..(returned + duplicate_count) |->
                     ((k - 1 + s) % (returned + duplicate_count)) + 1]]

overlap_type_email_first(i, triple, email, phone, name) ==
    IF i \in triple THEN "TRIPLE"
    ELSE IF i \in email THEN "EMAIL"
    ELSE IF i \in email /\ i \in phone THEN "EMAIL_PHONE"
    ELSE IF i \in phone THEN "PHONE"
    ELSE IF i \in name THEN "NAME"
    ELSE "NONE"

\* lines 155-165: the if/elif chain over the index sets
overlap_type(i, triple, email, phone, name) ==
    IF i \in triple THEN "TRIPLE"
    ELSE IF i \in email /\ i \in phone THEN "EMAIL_PHONE"
    ELSE IF i \in email THEN "EMAIL"
    ELSE IF i \in phone THEN "PHONE"
    ELSE IF i \in name THEN "NAME"
    ELSE "NONE"

\* series.dropna().astype(str).values of a column of the sample
dropna(sample, column) ==
    LET present == SelectSeq(sample, LAMBDA r : r[column] # None)
    IN [k \in 1..Len(present) |-> present[k][column]]

\* the values Faker("fr_FR") gives for customer i
fake(i) ==
    [first_name |-> FirstNames[(i % 3) + 1],
     last_name |-> LastNames[((i \div 3) % 3) + 1],
     email |-> <<"c", ToString(i), "@", "example.org">>,
     phone_number |-> <<"+", "3", "3", " ">> \o SeedPhone(i, 1)]

\* the draws of one loop iteration for customer i per seed s; the positions
\* are taken in lists of src_emails, src_phones and sample rows
CustomerDraw(i, s, emails_len, phones_len, sample_len) ==
    [src_email |-> IF emails_len = 0 THEN 0 ELSE ((i + s) % emails_len) + 1,
     src_phone |-> IF phones_len = 0 THEN 0 ELSE ((2 * i + s) % phones_len) + 1,
     name_pair_idx |-> IF sample_len = 0 THEN 0 ELSE (i + 2 * s) % sample_len,
     name_based |-> (i + s) % 3 # 0,
     domain |-> ((i + s) % Len(FRENCH_EMAIL_DOMAINS)) + 1,
     missing_email |-> (i + s) % 2 = 0,
     missing_phone |-> (i + s) % 3 # 1,
     has_birth_date |-> (i + s) % 5 < 2,
     marketing_opt_in |-> (i + s) % 2 = 1,
     has_postcode |-> (i + s) % 5 < 3]

missing_values_everywhere(tag, d) ==
    [email |-> d.missing_email, phone |-> d.missing_phone]

\* lines 208-213: which of email and phone the data quality step blanks
missing_values(tag, d) ==
    [email |-> tag \notin {"TRIPLE", "EMAIL", "EMAIL_PHONE"} /\ d.missing_email,
     phone |-> tag \notin {"TRIPLE", "PHONE", "EMAIL_PHONE"} /\ d.missing_phone]

\* the exception an iteration of the loop raises for customer i, or "":
\* i % len(source_sample) (line 170), random.choice of an empty array (lines
\* 182, 195), random.randint(0, -1) (line 201), addresses[address_idx] (223)
customer_exception(i, tag, sample, address_idx, address_list, address_set) ==
    IF tag = "TRIPLE" /\ Len(sample) = 0 THEN "ZeroDivisionError"
    ELSE IF tag \in {"EMAIL", "EMAIL_PHONE"} /\ dropna(sample, "EMAIL") = <<>>
    THEN "IndexError"
    ELSE IF tag \in {"PHONE", "EMAIL_PHONE"} /\ dropna(sample, "PHONE") = <<>>
    THEN "IndexError"
    ELSE IF tag = "NAME" /\ Len(sample) = 0 THEN "ValueError"
    ELSE IF i \in address_set /\ address_idx >= Len(address_list) THEN "IndexError"
    ELSE ""

\* lines 167-252 for customer i; has_address: i in address_indices, and then
\* address is the entry addresses[address_idx]
crocevia_customer(i, tag, sample, has_address, address, d) ==
    LET src_row == sample[(i % Len(sample)) + 1]
        name_row == sample[d.name_pair_idx + 1]
        generated_email == crocevia_email(fake(i).first_name, fake(i).last_name,
                                          d.name_based, fake(i).email, d.domain)
        email == IF tag = "TRIPLE" THEN src_row.EMAIL
                 ELSE IF tag \in {"EMAIL", "EMAIL_PHONE"}
                 THEN dropna(sample, "EMAIL")[d.src_email]
                 ELSE generated_email
        phone == IF tag = "TRIPLE" THEN src_row.PHONE
                 ELSE IF tag \in {"PHONE", "EMAIL_PHONE"}
                 THEN dropna(sample, "PHONE")[d.src_phone]
                 ELSE fake(i).phone_number
        missing == missing_values(tag, d)
    IN [CUSTOMER_ID |-> <<"C", "R", "V", "-">> \o Pad10(i),
        FIRST_NAME |-> IF tag = "TRIPLE" THEN src_row.FIRST_NAME
                       ELSE IF tag = "NAME" THEN name_row.FIRST_NAME
                       ELSE fake(i).first_name,
        LAST_NAME |-> IF tag = "TRIPLE" THEN src_row.LAST_NAME
                      ELSE IF tag = "NAME" THEN name_row.LAST_NAME
                      ELSE fake(i).last_name,
        EMAIL |-> IF missing.email THEN None ELSE email,
        PHONE |-> IF missing.phone THEN None ELSE phone,
        STREET |-> IF has_address THEN address.street ELSE None,
        CITY |-> IF has_address THEN address.city ELSE None,
        POSTAL_CODE |-> IF has_address THEN address.postal_code
                        ELSE IF d.has_postcode THEN PadZero(69000 + i, 5) ELSE None,
        LATITUDE |-> IF has_address THEN address.latitude ELSE None,
        LONGITUDE |-> IF has_address THEN address.longitude ELSE None,
        DATE_OF_BIRTH |-> IF d.has_birth_date THEN <<"1980-02-0", ToString(i % 10)>>
                          ELSE None,
        REGISTRATION_DATE |-> <<"2021-03-0", ToString(i % 10)>>,
        MARKETING_OPT_IN |-> d.marketing_opt_in,
        OVERLAP_TYPE |-> <<tag>>]

\* the loop of lines 153-252 and line 254: the exception of the first
\* iteration that raises, or the list of customers
generate_customers(num, sample, triple, email, phone, name, address_set, address_list, s) ==
    LET tag(i) == overlap_type(i, triple, email, phone, name)
        address_idx(i) == Cardinality({j \in address_set : j < i})
        exception(i) == customer_exception(i, tag(i), sample, address_idx(i),
                                           address_list, address_set)
        raising == {i \in 0..(num - 1) : exception(i) # ""}
    IN IF raising # {}
       THEN [exc |-> exception(CHOOSE i \in raising : \A j \in raising : i <= j),
             customers |-> <<>>]
       ELSE [exc |-> "",
             customers |->
                [k \in 1..num |->
                    crocevia_customer(
                        k - 1, tag(k - 1), sample, (k - 1) \in address_set,
                        address_list[address_idx(k - 1) + 1],
                        CustomerDraw(k - 1, s, Len(dropna(sample, "EMAIL")),
                                     Len(dropna(sample, "PHONE")), Len(sample)))]]

\* a sample of k source customers (line 110): row 2 has no phone, row 3 no email
SourceSample(k) ==
    [j \in 1..k |-> [SummitRow(j - 1) EXCEPT !.EMAIL = IF j = 3 THEN None ELSE @]]

\* the rows the address table may hold: none, one, enough
AddressTableChoices == {0, 1, AddressRows}

InitCustomers ==
    /\ mode = "generate_crocevia_customers"
    /\ pc = "call"
    /\ err = ""
    /\ NoApplicator
    /\ total_rows = [crocevia |-> 0, summit |-> 0]
    /\ generated = 0
    /\ start_index = 0
    /\ first_batch = TRUE
    /\ batch = 0
    /\ batch_df = <<>>
    /\ input_df = <<>>
    /\ duplicate_ratio = DUPLICATE_PROFILE_RATIO
    /\ CROCEVIA_TABLE = <<>>
    /\ SUMMIT_TABLE = <<>>
    /\ batches_written = [crocevia |-> 0, summit |-> 0]
    /\ rng = 0
    /\ query_order = 0
    /\ people_table_rows = PeopleRows
    /\ NoPhones
    /\ NoBuilder
    /\ num_customers \in 0..MaxCustomers
    /\ source_sample \in {SourceSample(0), SourceSample(3)}
    /\ address_table_rows \in AddressTableChoices
    /\ triple_indices = {}
    /\ email_indices = {}
    /\ phone_indices = {}
    /\ name_indices = {}
    /\ address_indices = {}
    /\ french_addresses = <<>>
    /\ customers = <<>>

\* lines 121-142: the overlap counts and the four index sets
ChooseOverlapIndices ==
    /\ mode = "generate_crocevia_customers"
    /\ pc = "call"
    /\ LET all_indices == 0..(num_customers - 1)
           triple_count == triple_match_count(num_customers)
       IN \E triple \in IndexChoices(all_indices, triple_count) :
             LET remaining == all_indices \ triple
             IN /\ triple_indices' = triple
                /\ email_indices' \in
                      IndexChoices(remaining, email_overlap_count(num_customers) - triple_count)
                /\ phone_indices' \in
                      IndexChoices(remaining, phone_overlap_count(num_customers) - triple_count)
                /\ name_indices' \in
                      IndexChoices(remaining, name_overlap_count(num_customers) - triple_count)
    /\ pc' = "indexed"
    /\ UNCHANGED <<mode, err, applicator, orchestration, builder, num_customers,
                   source_sample, address_table_rows, address_indices, french_addresses,
                   customers>>

\* lines 144-148: load_french_addresses(session, address_count, 0.80), then
\* the customers that get an address
LoadFrenchAddresses ==
    /\ mode = "generate_crocevia_customers"
    /\ pc = "indexed"
    /\ LET wanted == address_count(num_customers)
           unique_count == IntOf(RMul(RInt(wanted), <<80, 100>>))
           returned == Min(unique_count, address_table_rows)
       IN \E s \in 0..MaxCustomerSeed :
             LET loaded == load_french_addresses(
                               wanted, <<80, 100>>, address_table_rows,
                               AddressDraw(returned, wanted - unique_count, s))
             IN IF loaded.exc # ""
                THEN /\ err' = loaded.exc
                     /\ pc' = "raised"
                     /\ UNCHANGED <<french_addresses, address_indices>>
                ELSE /\ french_addresses' = loaded.addresses
                     /\ address_indices' \in
                           {0..(wanted - 1), (num_customers - wanted)..(num_customers - 1)}
                     /\ pc' = "loaded"
                     /\ UNCHANGED err
    /\ UNCHANGED <<mode, applicator, orchestration, builder, num_customers, source_sample,
                   address_table_rows, triple_indices, email_indices, phone_indices,
                   name_indices, customers>>

\* lines 150-254: the loop over the customers and the returned frame
GenerateCustomers ==
    /\ mode = "generate_crocevia_customers"
    /\ pc = "loaded"
    /\ \E s \in 0..MaxCustomerSeed :
          LET made == generate_customers(num_customers, source_sample, triple_indices,
                                         email_indices, phone_indices, name_indices,
                                         address_indices, french_addresses, s)
          IN /\ err' = made.exc
             /\ customers' = made.customers
             /\ pc' = IF made.exc # "" THEN "raised" ELSE "return"
    /\ UNCHANGED <<mode, applicator, orchestration, builder, num_customers, source_sample,
                   address_table_rows, triple_indices, email_indices, phone_indices,
                   name_indices, address_indices, french_addresses>>

NextCustomers == ChooseOverlapIndices \/ LoadFrenchAddresses \/ GenerateCustomers

SpecCustomers == InitCustomers /\ [][NextCustomers]_vars

(***************************************************************************)
(* SpecPhones: one call of _generate_french_phones(n, unique_ratio)        *)
(***************************************************************************)
PhoneRatios == {<<0, 1>>, <<1, 2>>, <<9, 10>>, <<1, 1>>}

\* the numbers make_phone may return, cut down to MaxPhones + 1 of them
PhonePool == {SeedPhone(k, 0) : k \in 0..MaxPhones}

\* all outcomes of the draws of a call that collects unique_count numbers:
\* the order list(unique_set) gives them, the positions random.choices
\* takes, the order random.shuffle leaves
PhoneDraws(count, unique_count) ==
    [unique_list : {q \in [1..unique_count -> PhonePool] :
                       \A a, b \in 1..unique_count : a # b => q[a] # q[b]},
     fill : [1..(count - unique_count) -> 1..unique_count],
     shuffle : {q \in [1..count -> 1..count] :
                   \A a, b \in 1..count : a # b => q[a] # q[b]}]

InitPhones ==
    /\ mode = "generate_french_phones"
    /\ pc = "call"
    /\ err = ""
    /\ NoApplicator
    /\ total_rows = [crocevia |-> 0, summit |-> 0]
    /\ generated = 0
    /\ start_index = 0
    /\ first_batch = TRUE
    /\ batch = 0
    /\ batch_df = <<>>
    /\ input_df = <<>>
    /\ duplicate_ratio = DUPLICATE_PROFILE_RATIO
    /\ CROCEVIA_TABLE = <<>>
    /\ SUMMIT_TABLE = <<>>
    /\ batches_written = [crocevia |-> 0, summit |-> 0]
    /\ rng = 0
    /\ query_order = 0
    /\ people_table_rows = PeopleRows
    /\ NoBuilder
    /\ NoCustomers
    /\ phone_count \in 1..MaxPhones
    /\ phone_unique_ratio \in PhoneRatios
    /\ phone_list = <<>>

\* the call returns its list; with no unique number to repeat,
\* random.choices raises before any draw of it
GenerateFrenchPhones ==
    /\ mode = "generate_french_phones"
    /\ pc = "call"
    /\ LET unique_count == IntOf(RMul(RInt(phone_count), phone_unique_ratio))
       IN IF unique_count = 0
          THEN LET r == generate_french_phones(
                           phone_count, phone_unique_ratio,
                           [unique_list |-> <<>>, fill |-> <<>>, shuffle |-> <<>>])
               IN err' = r.exc /\ phone_list' = r.phones
          ELSE \E draw \in PhoneDraws(phone_count, unique_count) :
                  LET r == generate_french_phones(phone_count, phone_unique_ratio, draw)
                  IN err' = r.exc /\ phone_list' = r.phones
    /\ pc' = "return"
    /\ UNCHANGED <<mode, applicator, total_rows, query_order, people_table_rows, builder, customer_generation,
                   phone_count,
                   phone_unique_ratio, generated, start_index, first_batch, batch, batch_df,
                   input_df, duplicate_ratio, CROCEVIA_TABLE, SUMMIT_TABLE,
                   batches_written, rng>>

NextPhones == GenerateFrenchPhones

SpecPhones == InitPhones /\ [][NextPhones]_vars

(***************************************************************************)
(* Spec: main(session) of the dual generator: generate_crocevia, then      *)
(* generate_summit.  Both tables exist before the run, empty or holding    *)
(* the rows of an earlier run.  The module never seeds `random` or         *)
(* `numpy.random`, so a run starts in any state of the generators; the     *)
(* order of the query results is an input of the run.                      *)
(***************************************************************************)
Seeds == 0..MaxSeed

\* every draw moves the generators to their next state
NextRng(s) == (s + 1) % (MaxSeed + 1)

\* total_rows: whole batches, and whole batches plus one or two rows
TotalRowsChoices(batch_size) ==
    {k * batch_size + j : k \in 0..(MaxBatches - 1), j \in 0..2}
        \cup {MaxBatches * batch_size}

\* int(batch * 0.6), the address count asked for at lines 417 and 436
AddressCount(b) == IntOf(RMul(RInt(b), <<6, 10>>))

\* the frame one loop iteration builds (lines 415-418, 434-437); q: the
\* order of the query results, s: the state of the random generators
LoadAndBuild(b, source_name, start, q, s, people_rows) ==
    LET people == load_people(b, people_rows, q + start)
        addresses == load_addresses(AddressCount(b), AddressRows, q + start)
    IN build_base_batch(people, addresses, source_name, start,
                        BatchDraw(Len(people), Len(addresses), s))

\* what an earlier run of two rows left in a table
EarlierRun(source_name) == LoadAndBuild(2, source_name, 0, 0, 0, PeopleRows).df

\* session.write_pandas(df, table, auto_create_table=True, overwrite=first_batch)
write_pandas_always_overwriting(table, df, overwrite) == df
write_pandas(table, df, overwrite) == IF overwrite THEN df ELSE table \o df

\* start_index += batch
next_start_index_stalled(start, b) == start
next_start_index(start, b) == start + b

\* pool_size = int(batch * SUMMIT_OVERLAP_RATIO * 1.2)
PoolSize(b) == IntOf(RMul(RMul(RInt(b), SUMMIT_OVERLAP_RATIO), <<12, 10>>))

pool_query_of_one_row(table, pool_size, offset) ==
    [i \in 1..Min(1, Len(table)) |->
        LET r == table[(offset % Len(table)) + 1]
        IN [FIRST_NAME |-> r.FIRST_NAME, LAST_NAME |-> r.LAST_NAME,
            BIRTH_DATE |-> r.BIRTH_DATE, PHONE |-> r.PHONE, EMAIL |-> r.EMAIL,
            STREET |-> r.STREET, POSTAL_CODE |-> r.POSTAL_CODE]]

\* the pool query of lines 441-447: seven columns of at most pool_size rows
\* of the Crocevia table, in the random order that starts at `offset`
pool_query(table, pool_size, offset) ==
    [i \in 1..Min(pool_size, Len(table)) |->
        LET r == table[((offset + i - 1) % Len(table)) + 1]
        IN [FIRST_NAME |-> r.FIRST_NAME, LAST_NAME |-> r.LAST_NAME,
            BIRTH_DATE |-> r.BIRTH_DATE, PHONE |-> r.PHONE, EMAIL |-> r.EMAIL,
            STREET |-> r.STREET, POSTAL_CODE |-> r.POSTAL_CODE]]

Init ==
    /\ mode = "main"
    /\ pc = "main"
    /\ err = ""
    /\ NoApplicator
    /\ total_rows \in [crocevia : TotalRowsChoices(BATCH_SIZE_CROCEVIA),
                       summit : TotalRowsChoices(BATCH_SIZE_SUMMIT)]
    /\ generated = 0
    /\ start_index = 0
    /\ first_batch = TRUE
    /\ batch = 0
    /\ batch_df = <<>>
    /\ input_df = <<>>
    /\ duplicate_ratio = DUPLICATE_PROFILE_RATIO
    /\ \E earlier \in BOOLEAN :
          /\ CROCEVIA_TABLE = IF earlier THEN EarlierRun(CroceviaName) ELSE <<>>
          /\ SUMMIT_TABLE = IF earlier THEN EarlierRun(SummitName) ELSE <<>>
    /\ batches_written = [crocevia |-> 0, summit |-> 0]
    /\ rng \in Seeds
    /\ query_order \in Seeds
    /\ people_table_rows \in {0, PeopleRows}
    /\ NoBuilder
    /\ NoCustomers
    /\ NoPhones

\* generate_crocevia, lines 411-413
GenerateCrocevia ==
    /\ mode = "main" /\ pc = "main"
    /\ first_batch' = TRUE
    /\ generated' = 0
    /\ start_index' = 0
    /\ pc' = "crocevia_loop"
    /\ UNCHANGED <<mode, err, applicator, total_rows, query_order, people_table_rows, builder, customer_generation,
                   phone_count, phone_unique_ratio, phone_list, batch, batch_df, input_df,
                   duplicate_ratio, CROCEVIA_TABLE, SUMMIT_TABLE, batches_written,
                   rng>>

\* generate_crocevia, lines 414-418: one batch is loaded and built
CroceviaBuild ==
    /\ mode = "main" /\ pc = "crocevia_loop"
    /\ generated < total_rows.crocevia
    /\ LET b == Min(BATCH_SIZE_CROCEVIA, total_rows.crocevia - generated)
       IN /\ batch' = b
          /\ rng' = NextRng(rng)
          /\ \E built \in {LoadAndBuild(b, CroceviaName, start_index, query_order, rng,
                                             people_table_rows)} :
                   IF built.exc # ""
                   THEN /\ err' = built.exc
                        /\ pc' = "raised"
                        /\ UNCHANGED batch_df
                   ELSE /\ batch_df' = built.df
                        /\ pc' = "crocevia_built"
                        /\ UNCHANGED err
    /\ UNCHANGED <<mode, applicator, total_rows, query_order, people_table_rows, builder, customer_generation,
                   phone_count, phone_unique_ratio, phone_list, generated, start_index, first_batch,
                   input_df, duplicate_ratio, CROCEVIA_TABLE, SUMMIT_TABLE,
                   batches_written>>

\* generate_crocevia, lines 419-423: the batch is written, the counters advance
CroceviaWrite ==
    /\ mode = "main" /\ pc = "crocevia_built"
    /\ CROCEVIA_TABLE' = write_pandas(CROCEVIA_TABLE, batch_df, first_batch)
    /\ batches_written' = [batches_written EXCEPT !.crocevia = @ + 1]
    /\ first_batch' = FALSE
    /\ generated' = generated + batch
    /\ start_index' = next_start_index(start_index, batch)
    /\ pc' = "crocevia_loop"
    /\ UNCHANGED <<mode, err, applicator, total_rows, query_order, people_table_rows, builder, customer_generation,
                   phone_count, phone_unique_ratio, phone_list, batch, batch_df, input_df,
                   duplicate_ratio, SUMMIT_TABLE, rng>>

\* generate_crocevia returns; generate_summit, lines 429-432
GenerateSummit ==
    /\ mode = "main" /\ pc = "crocevia_loop"
    /\ ~(generated < total_rows.crocevia)
    /\ first_batch' = TRUE
    /\ generated' = 0
    /\ start_index' = 0
    /\ plan' = normalized(DefaultPlan)
    /\ pc' = "summit_loop"
    /\ UNCHANGED <<mode, err, summit_df, crocevia_pool_df, overlap_ratio, n,
                   local_plan, counts, popped, picked, total_rows, query_order, people_table_rows, builder, customer_generation,
                   phone_count, phone_unique_ratio, phone_list, batch, batch_df,
                   input_df, duplicate_ratio, CROCEVIA_TABLE, SUMMIT_TABLE,
                   batches_written, rng>>

\* generate_summit, lines 433-437: one batch is loaded and built
SummitBuild ==
    /\ mode = "main" /\ pc = "summit_loop"
    /\ generated < total_rows.summit
    /\ LET b == Min(BATCH_SIZE_SUMMIT, total_rows.summit - generated)
       IN /\ batch' = b
          /\ rng' = NextRng(rng)
          /\ \E built \in {LoadAndBuild(b, SummitName, start_index, query_order, rng,
                                             people_table_rows)} :
                   IF built.exc # ""
                   THEN /\ err' = built.exc
                        /\ pc' = "raised"
                        /\ UNCHANGED <<batch_df, summit_df>>
                   ELSE /\ batch_df' = built.df
                        /\ summit_df' = built.df
                        /\ pc' = "summit_built"
                        /\ UNCHANGED err
    /\ UNCHANGED <<mode, crocevia_pool_df, overlap_ratio, plan, n, local_plan, counts,
                   popped, picked, total_rows, query_order, people_table_rows, builder, customer_generation,
                   phone_count, phone_unique_ratio, phone_list, generated, start_index, first_batch,
                   input_df, duplicate_ratio, CROCEVIA_TABLE, SUMMIT_TABLE,
                   batches_written>>

\* generate_summit, lines 439-447: the pool is sampled from the Crocevia table
SummitPool ==
    /\ mode = "main" /\ pc = "summit_built"
    /\ crocevia_pool_df' = pool_query(CROCEVIA_TABLE, PoolSize(batch),
                                      query_order + start_index)
    /\ pc' = "summit_pooled"
    /\ UNCHANGED <<mode, err, summit_df, overlap_ratio, plan, n, local_plan, counts,
                   popped, picked, total_rows, query_order, people_table_rows, builder, customer_generation,
                   phone_count, phone_unique_ratio, phone_list, generated, start_index, first_batch,
                   batch, batch_df, input_df, duplicate_ratio, CROCEVIA_TABLE,
                   SUMMIT_TABLE, batches_written, rng>>

\* generate_summit, lines 449-451: _apply_overlap_to_summit_batch on the batch
SummitOverlap ==
    /\ mode = "main" /\ pc = "summit_pooled"
    /\ overlap_ratio' = SUMMIT_OVERLAP_RATIO
    /\ n' = Len(summit_df)
    /\ LET h == apply_overlap_counts(Len(summit_df), Len(crocevia_pool_df),
                                     SUMMIT_OVERLAP_RATIO, plan)
       IN /\ counts' = h.counts
          /\ local_plan' = h.plan
          /\ err' = h.exc
          /\ pc' = IF h.exc # "" THEN "raised" ELSE "summit_overlapped"
          /\ IF h.ret
             THEN /\ popped' = <<>>
                  /\ picked' = <<>>
                  /\ UNCHANGED <<summit_df, rng>>
             ELSE /\ rng' = NextRng(rng)
                  /\ \E st \in {apply_overlap_loops(
                                   summit_df, crocevia_pool_df, h.counts,
                                   OverlapDraw(Len(summit_df), Len(crocevia_pool_df),
                                               h.counts, rng))} :
                        /\ summit_df' = st.df
                        /\ popped' = st.popped
                        /\ picked' = st.picked
    /\ UNCHANGED <<mode, crocevia_pool_df, plan, total_rows, query_order, people_table_rows, builder, customer_generation,
                   phone_count, phone_unique_ratio, phone_list, generated, start_index,
                   first_batch, batch, batch_df, input_df, duplicate_ratio,
                   CROCEVIA_TABLE, SUMMIT_TABLE, batches_written>>

\* generate_summit, lines 452-456: the batch is written, the counters advance
SummitWrite ==
    /\ mode = "main" /\ pc = "summit_overlapped"
    /\ SUMMIT_TABLE' = write_pandas(SUMMIT_TABLE, summit_df, first_batch)
    /\ batches_written' = [batches_written EXCEPT !.summit = @ + 1]
    /\ first_batch' = FALSE
    /\ generated' = generated + batch
    /\ start_index' = next_start_index(start_index, batch)
    /\ pc' = "summit_loop"
    /\ UNCHANGED <<mode, err, applicator, total_rows, query_order, people_table_rows, builder, customer_generation,
                   phone_count, phone_unique_ratio, phone_list, batch, batch_df, input_df,
                   duplicate_ratio, CROCEVIA_TABLE, rng>>

\* generate_summit returns, and main after it
MainReturns ==
    /\ mode = "main" /\ pc = "summit_loop"
    /\ ~(generated < total_rows.summit)
    /\ pc' = "done"
    /\ UNCHANGED <<mode, err, applicator, orchestration, builder, customer_generation>>

Next ==
    \/ GenerateCrocevia
    \/ CroceviaBuild
    \/ CroceviaWrite
    \/ GenerateSummit
    \/ SummitBuild
    \/ SummitPool
    \/ SummitOverlap
    \/ SummitWrite
    \/ MainReturns

Spec == Init /\ [][Next]_vars

(***************************************************************************)
(* Properties                                                              *)
(***************************************************************************)
Returned == pc = "return"
\* floor(r * n), stated on the arguments of the call
FloorOfRatio == (n * overlap_ratio[1]) \div overlap_ratio[2]
ZeroWeights ==
    /\ plan.all_fields[1] = 0 /\ plan.three_fields[1] = 0
    /\ plan.two_fields[1] = 0 /\ plan.one_field[1] = 0
PositiveWeights == ~ZeroWeights
WeightNames == {"all_fields", "three_fields", "two_fields", "one_field"}
\* floor(x * w) for a weight w
FloorTimes(x, w) == (x * w[1]) \div w[2]
TaggedRows == {i \in 1..Len(summit_df) : summit_df[i].OVERLAP_TYPE # NONE}
\* the column names of a "+"-joined tag
TagNames(tag) == {tag[k] : k \in {j \in 1..Len(tag) : j % 2 = 1}}

\* C1: when the count computation returns (the pool is not empty), the four
\* category counts are non-negative and sum to floor(r * n); the first three
\* are the floors of their shares and one_field takes its floor plus the
\* remainder.
C1_CountsSumToTarget ==
    (Returned /\ err = "") =>
        /\ counts.c_all >= 0 /\ counts.c_three >= 0
        /\ counts.c_two >= 0 /\ counts.c_one >= 0
        /\ counts.c_all + counts.c_three + counts.c_two + counts.c_one = FloorOfRatio
        /\ counts.computed =>
              /\ counts.c_all = FloorTimes(FloorOfRatio, local_plan.all_fields)
              /\ counts.c_three = FloorTimes(FloorOfRatio, local_plan.three_fields)
              /\ counts.c_two = FloorTimes(FloorOfRatio, local_plan.two_fields)
              /\ counts.c_one >= FloorTimes(FloorOfRatio, local_plan.one_field)

C1_Witness ==
    /\ Returned /\ counts.computed
    /\ counts.c_all >= 1 /\ counts.c_three >= 1 /\ counts.c_two >= 1
    /\ counts.c_one > FloorTimes(FloorOfRatio, local_plan.one_field)
    /\ FloorTimes(FloorOfRatio, local_plan.one_field) >= 1

\* C2: with a positive weight sum, the all-fields, three-fields and two-fields
\* counts equal floor(r * n * w_c / sum(weights)); a batch of 1000 at ratio
\* 0.6 with the default weights gets 100, 200, 200 and 100.
C2_CountsFollowWeights ==
    (Returned /\ counts.computed /\ PositiveWeights) =>
        /\ \A c \in {"all_fields", "three_fields", "two_fields"} :
              LET share == RDiv(RMul(RMul(overlap_ratio, RInt(n)), plan[c]),
                                PlanTotal(plan))
                  got == CASE c = "all_fields" -> counts.c_all
                           [] c = "three_fields" -> counts.c_three
                           [] OTHER -> counts.c_two
              IN got = IntOf(share)
        /\ (n = 1000 /\ overlap_ratio = SUMMIT_OVERLAP_RATIO /\ plan = DefaultPlan) =>
              /\ counts.c_all = 100 /\ counts.c_three = 200
              /\ counts.c_two = 200 /\ counts.c_one = 100

TagArity(tag) == IF tag = NONE THEN 0 ELSE (Len(tag) + 1) \div 2
\* the candidate field lists of a category
Candidates(category) ==
    CASE category = "all_fields" -> {ALL_FIELDS}
      [] category = "three_fields" -> Range(triplets)
      [] category = "two_fields" -> Range(pairs)
      [] OTHER -> {<<singles[k]>> : k \in 1..Len(singles)}
\* tag is the "+"-joined, alphabetically sorted list of exactly `names`
IsSortedJoinOf(tag, names) ==
    /\ Len(tag) = 2 * Cardinality(names) - 1
    /\ TagNames(tag) = names
    /\ \A k \in 1..Len(tag) : k % 2 = 0 => tag[k] = "+"
    /\ \A j, k \in 1..Len(tag) :
          (j % 2 = 1 /\ k % 2 = 1 /\ j < k) =>
              AlphabeticalRank(tag[j]) < AlphabeticalRank(tag[k])

\* C5: in one call every row label is popped at most once over the four
\* loops, and each row ends with one overlap value: the tag of the category
\* that popped it, "NONE" if none did.
C5_RowsPoppedAtMostOnce ==
    Returned =>
        /\ \A a, b \in 1..Len(popped) : a # b => popped[a] # popped[b]
        /\ \A k \in 1..Len(picked) :
              TagArity(summit_df[picked[k].idx + 1].OVERLAP_TYPE)
                  = Len(picked[k].fields)
        /\ \A i \in 1..Len(summit_df) :
              (\A k \in 1..Len(picked) : picked[k].idx # i - 1) =>
                  summit_df[i].OVERLAP_TYPE = NONE

C5_Witness ==
    /\ Returned /\ Len(picked) = 2
    /\ picked[1].category = "all_fields" /\ picked[2].category = "one_field"
    /\ picked[1].idx # picked[2].idx

\* C6: after a call on n rows with ratio r at most floor(r * n) distinct rows
\* have been touched, and every row that was not selected is as it was, with
\* OVERLAP_TYPE "NONE".
C6_AtMostTargetRowsTouched ==
    Returned =>
        /\ Cardinality(Range(popped)
              \cup {i - 1 : i \in {j \in 1..Len(summit_df) : summit_df[j] # SummitRow(j - 1)}})
             <= FloorOfRatio
        /\ \A i \in 1..Len(summit_df) :
              (i - 1) \notin Range(popped) =>
                  /\ summit_df[i].OVERLAP_TYPE = NONE
                  /\ summit_df[i] = SummitRow(i - 1)

C6_Witness ==
    /\ Returned /\ Len(summit_df) = 2 /\ popped = <<1>>
    /\ summit_df[2].OVERLAP_TYPE # NONE /\ summit_df[1].OVERLAP_TYPE = NONE

\* C7: every selected row holds, in each column of its field list, the value
\* of one pool row (the same for all its columns); its OVERLAP_TYPE is the
\* "+"-joined alphabetically sorted list of exactly those columns; and the
\* field list is a candidate of the category that selected the row.
C7_FieldsCopiedFromOnePoolRow ==
    Returned =>
        \A k \in 1..Len(picked) :
            LET row == summit_df[picked[k].idx + 1]
                names == Range(picked[k].fields)
            IN /\ picked[k].fields \in Candidates(picked[k].category)
               /\ IsSortedJoinOf(row.OVERLAP_TYPE, names)
               /\ \A f \in names : row[f] = crocevia_pool_df[picked[k].src + 1][f]
               /\ \E j \in 1..Len(crocevia_pool_df) :
                     \A f \in TagNames(row.OVERLAP_TYPE) : row[f] = crocevia_pool_df[j][f]

C7_Witness ==
    /\ Returned
    /\ \E k \in 1..Len(picked) :
          /\ picked[k].fields = <<"FIRST_NAME", "LAST_NAME", "BIRTH_DATE">>
          /\ picked[k].src = 1
          /\ summit_df[picked[k].idx + 1].OVERLAP_TYPE
                = <<"BIRTH_DATE", "+", "FIRST_NAME", "+", "LAST_NAME">>
          /\ summit_df[picked[k].idx + 1].FIRST_NAME = PoolRow(1).FIRST_NAME

\* C8: if the pool is empty, or the batch is empty, or floor(r * n) is 0, the
\* call returns the batch with every column of every row unchanged and raises
\* no error.
C8_NoOpOnEmptyInput ==
    (Returned /\ (Len(crocevia_pool_df) = 0 \/ n = 0 \/ FloorOfRatio = 0)) =>
        /\ err = ""
        /\ Len(summit_df) = n
        /\ \A i \in 1..n : summit_df[i] = SummitRow(i - 1)

C8_Witness ==
    /\ Returned /\ Len(crocevia_pool_df) = 0 /\ n = 2 /\ FloorOfRatio = 2
    /\ PositiveWeights
    /\ summit_df = SummitFrame(2)

\* rows of a frame tagged DUPLICATE
DuplicateTagged(df) == {i \in 1..Len(df) : df[i].OVERLAP_TYPE = DUPLICATE}
\* floor(len * q) for the frame and the ratio a duplicate injection was called with
FloorOfDuplicates == (Len(input_df) * duplicate_ratio[1]) \div duplicate_ratio[2]

\* C10: after a duplicate injection (add_duplicate_customers or
\* _add_duplicate_profiles) with ratio q on a frame of len rows, the number of
\* rows of the result tagged DUPLICATE equals floor(len * q).
C10_DuplicateTagCount ==
    (mode \in {"add_duplicate_profiles", "add_duplicate_customers"} /\ pc = "return")
        => Cardinality(DuplicateTagged(batch_df)) = FloorOfDuplicates

\* the identifiers of a table are pairwise distinct
DistinctCustomerIds(table) ==
    \A i, j \in 1..Len(table) : i # j => table[i].CUSTOMER_ID # table[j].CUSTOMER_ID
\* an identifier that ends in "_DUP" and one more character
IsDuplicateId(id) ==
    /\ Len(id) > Len(DupMark) + 1
    /\ SubSeq(id, Len(id) - Len(DupMark), Len(id) - 1) = DupMark
DuplicateRows(table) == {i \in 1..Len(table) : IsDuplicateId(table[i].CUSTOMER_ID)}

\* C9: within one run of generate_crocevia / generate_summit, once a batch
\* has been written to a sink, all CUSTOMER_ID values of that sink are
\* pairwise distinct, injected duplicates included; between two iterations
\* start_index equals the number of rows asked for so far, and a batch that
\* is built and not yet written shares no identifier with the rows written.
C9_CustomerIdsDistinct ==
    mode = "main" =>
        /\ batches_written.crocevia > 0 => DistinctCustomerIds(CROCEVIA_TABLE)
        /\ batches_written.summit > 0 => DistinctCustomerIds(SUMMIT_TABLE)
        /\ pc \in {"crocevia_loop", "summit_loop"} => start_index = generated
        /\ (pc = "crocevia_built" /\ batches_written.crocevia > 0)
              => DistinctCustomerIds(CROCEVIA_TABLE \o batch_df)
        /\ (pc = "summit_overlapped" /\ batches_written.summit > 0)
              => DistinctCustomerIds(SUMMIT_TABLE \o summit_df)

\* a finished run that wrote two batches to each sink, each with a duplicate
C9_Witness ==
    /\ mode = "main" /\ pc = "done"
    /\ batches_written.crocevia >= 2 /\ batches_written.summit >= 2
    /\ Cardinality(DuplicateRows(CROCEVIA_TABLE)) >= 2
    /\ Cardinality(DuplicateRows(SUMMIT_TABLE)) >= 2

DupReturned ==
    mode \in {"add_duplicate_profiles", "add_duplicate_customers"} /\ pc = "return"
\* positions of the rows a duplicate injection appended
NewRows == (Len(input_df) + 1)..Len(batch_df)
IsPrefix(a, b) == Len(a) <= Len(b) /\ SubSeq(b, 1, Len(a)) = a

\* C11: every row a duplicate injection appends has an identifier of the form
\* <original_id> + "_DUP" + <one decimal digit>, where <original_id> is the
\* identifier of a row of the frame the injection was called with.
C11_DuplicateIdForm ==
    DupReturned =>
        \A k \in NewRows :
            \E j \in 1..Len(input_df) :
                \E d \in DigitChars :
                    batch_df[k].CUSTOMER_ID = input_df[j].CUSTOMER_ID \o DupMark \o <<d>>

\* C12: a duplicate injection appends and never replaces: the result is the
\* input rows, unchanged and in order, followed by exactly floor(len * ratio)
\* new rows; each new row carries the names of an input row and an identifier
\* that extends that row's, and no two new rows derive from the same input
\* row; with floor(len * ratio) = 0 the frame is returned unchanged.
C12_DuplicatesAppended ==
    DupReturned =>
        /\ Len(batch_df) = Len(input_df) + FloorOfDuplicates
        /\ SubSeq(batch_df, 1, Len(input_df)) = input_df
        /\ FloorOfDuplicates = 0 => batch_df = input_df
        /\ \E origin \in [NewRows -> 1..Len(input_df)] :
              /\ \A a, b \in NewRows : a # b => origin[a] # origin[b]
              /\ \A k \in NewRows :
                    /\ IsPrefix(input_df[origin[k]].CUSTOMER_ID \o DupMark,
                                batch_df[k].CUSTOMER_ID)
                    /\ batch_df[k].FIRST_NAME = input_df[origin[k]].FIRST_NAME
                    /\ batch_df[k].LAST_NAME = input_df[origin[k]].LAST_NAME

\* an injection that appended two rows to a four-row frame
C12_Witness ==
    /\ DupReturned
    /\ Len(input_df) = 4 /\ FloorOfDuplicates = 2 /\ Len(batch_df) = 6

\* C13: a run is determined by its inputs (total_rows and the query results):
\* the first Crocevia batch a run builds is the batch every run with the same
\* inputs builds, here the one built from the first state of the generators.
C13_FirstBatchDetermined ==
    (mode = "main" /\ pc = "crocevia_built" /\ batches_written.crocevia = 0) =>
        batch_df = LoadAndBuild(batch, CroceviaName, 0, query_order, 0,
                                people_table_rows).df

\* C14: every Summit Sports batch handed to the sink after an overlap step
\* with a non-empty Crocevia pool has at least 60% of its rows tagged with an
\* overlap category other than NONE.
C14_SixtyPercentOverlap ==
    (mode = "main" /\ pc = "summit_overlapped" /\ Len(crocevia_pool_df) > 0) =>
        10 * Cardinality(TaggedRows) >= 6 * Len(summit_df)

\* a step that writes a batch to the Crocevia / Summit Sports sink
WritesCrocevia == batches_written'.crocevia = batches_written.crocevia + 1
WritesSummit == batches_written'.summit = batches_written.summit + 1

\* C15: in generate_crocevia and in generate_summit the sink is called with
\* first_batch true for exactly the first batch written and false for every
\* later one: the first write replaces the table by the batch, every later
\* write keeps the rows written so far and appends the batch.
C15_OverwriteOnlyOnFirstBatch ==
    [][/\ WritesCrocevia =>
            /\ first_batch = (batches_written.crocevia = 0)
            /\ first_batch => CROCEVIA_TABLE' = batch_df
            /\ ~first_batch => CROCEVIA_TABLE' = CROCEVIA_TABLE \o batch_df
       /\ WritesSummit =>
            /\ first_batch = (batches_written.summit = 0)
            /\ first_batch => SUMMIT_TABLE' = summit_df
            /\ ~first_batch => SUMMIT_TABLE' = SUMMIT_TABLE \o summit_df]_vars

\* a finished run that wrote two full batches to each sink: each table
\* holds the rows of both batches
C15_Witness ==
    /\ mode = "main" /\ pc = "done"
    /\ batches_written = [crocevia |-> 2, summit |-> 2]
    /\ ~first_batch
    /\ Len(SUMMIT_TABLE) = 2 * Len(summit_df)
    /\ Len(CROCEVIA_TABLE) = Len(SUMMIT_TABLE)

\* C16: overlap is applied before missingness and duplication: when the
\* overlap step of a Summit Sports batch is about to run, the batch is the
\* base batch as assembled, i.e. it has one row per person loaded, no
\* injected duplicate, and every row still has its generated email and phone.
C16_OverlapBeforeInjection ==
    (mode = "main" /\ pc = "summit_pooled") =>
        /\ Len(summit_df) = Min(batch, people_table_rows)
        /\ DuplicateRows(summit_df) = {}
        /\ \A i \in 1..Len(summit_df) :
              summit_df[i].EMAIL # None /\ summit_df[i].PHONE # None

\* the text before the first "@" of an email and the text after it
AtSigns(email) == {k \in 1..Len(email) : email[k] = "@"}
LocalPart(email) ==
    SubSeq(email, 1, (CHOOSE k \in AtSigns(email) : \A o \in AtSigns(email) : k <= o) - 1)
DomainPart(email) ==
    SubSeq(email, (CHOOSE k \in AtSigns(email) : \A o \in AtSigns(email) : k <= o) + 1,
           Len(email))
HasListedDomain(email) ==
    /\ Cardinality(AtSigns(email)) = 1
    /\ \E d \in 1..Len(FRENCH_EMAIL_DOMAINS) : DomainPart(email) = <<FRENCH_EMAIL_DOMAINS[d]>>
\* the input row a new row derives from
OriginOf(k) ==
    CHOOSE j \in 1..Len(input_df) :
        IsPrefix(input_df[j].CUSTOMER_ID \o DupMark, batch_df[k].CUSTOMER_ID)

\* C17: every synthesized email (name-derived or random-handle branch, of
\* either generator) has its domain in the fixed French list; the email of a
\* duplicate is its original's, or its original's with one digit appended to
\* the local part and the domain unchanged.
C17_EmailDomains ==
    DupReturned =>
        /\ \A i \in 1..Len(input_df) :
              input_df[i].EMAIL # None => HasListedDomain(input_df[i].EMAIL)
        /\ \A k \in NewRows :
              LET old == input_df[OriginOf(k)].EMAIL
                  new == batch_df[k].EMAIL
              IN \/ new = old
                 \/ /\ old # None
                    /\ HasListedDomain(new)
                    /\ DomainPart(new) = DomainPart(old)
                    /\ \E d \in DigitChars : LocalPart(new) = LocalPart(old) \o <<d>>

\* a call that appended two duplicates, one with a perturbed email and one
\* with its original's email
C17_Witness ==
    /\ DupReturned
    /\ \E k, m \in NewRows :
          /\ input_df[OriginOf(k)].EMAIL # None
          /\ batch_df[k].EMAIL # input_df[OriginOf(k)].EMAIL
          /\ input_df[OriginOf(m)].EMAIL # None
          /\ batch_df[m].EMAIL = input_df[OriginOf(m)].EMAIL

PhonesReturned == mode = "generate_french_phones" /\ pc = "return"
\* '0X XX XX XX XX' with X's first digit in {1, 2, 3, 4, 5, 6, 7, 9}
IsFrenchPhone(p) ==
    /\ Len(p) = 14
    /\ p[1] = "0"
    /\ p[2] \in {"1", "2", "3", "4", "5", "6", "7", "9"}
    /\ \A k \in {3, 6, 9, 12} : p[k] = " "
    /\ \A k \in {4, 5, 7, 8, 10, 11, 13, 14} : p[k] \in DigitChars

\* C18: for n >= 1 and a unique ratio u in [0, 1], _generate_french_phones
\* returns (raises nothing) exactly n numbers of which exactly floor(n * u) are
\* distinct, each of the form '0X XX XX XX XX'.
C18_PhonesReturned ==
    PhonesReturned =>
        /\ err = ""
        /\ Len(phone_list) = phone_count
        /\ Cardinality(Range(phone_list)) = (phone_count * phone_unique_ratio[1]) \div phone_unique_ratio[2]
        /\ \A k \in 1..Len(phone_list) : IsFrenchPhone(phone_list[k])

DigitsOf(phone) == SelectSeq(phone, LAMBDA ch : ch \in DigitChars)
\* the new rows whose original has a phone of fewer than ten digits
MalformedDuplicates ==
    {k \in NewRows : /\ input_df[OriginOf(k)].PHONE # None
                     /\ Len(DigitsOf(input_df[OriginOf(k)].PHONE)) < 10}

\* C19: a duplicate injection met by a phone it cannot re-format (fewer than
\* ten digits) raises nothing: it returns the batch with all its duplicates,
\* and the duplicate of such a row keeps the phone of its original.
C19_MalformedPhoneKept ==
    DupReturned =>
        /\ err = ""
        /\ Len(batch_df) = Len(input_df) + FloorOfDuplicates
        /\ \A k \in MalformedDuplicates : batch_df[k].PHONE = input_df[OriginOf(k)].PHONE

\* a run whose people query returns no rows
NoPeopleRows == mode = "main" /\ people_table_rows = 0

\* C20: when the people source returns no rows for a batch, generation stops
\* with an explicit error (the ValueError kind the Crocevia generator raises
\* for an empty address source): no batch is built and none is written.  The
\* zero-weight plan and the empty pool, which never raise, are C3 and C8.
C20_EmptySourceFailsLoudly ==
    NoPeopleRows =>
        /\ batches_written = [crocevia |-> 0, summit |-> 0]
        /\ pc \notin {"crocevia_built", "summit_built", "summit_pooled", "summit_overlapped"}
        /\ pc = "raised" => err = "ValueError"

\* two plans with the same four weights
SameWeights(p, q) == \A a \in WeightNames : REq(p[a], q[a])

UntouchedColumns == {"CUSTOMER_ID", "SOURCE", "GENDER", "LATITUDE", "LONGITUDE"}

\* one call leaves the number of rows, the untouched columns of every row and
\* the whole of every row it did not pop as they were
FrameKept ==
    mode = "apply" =>
        /\ Len(summit_df') = Len(summit_df)
        /\ \A i \in 1..Len(summit_df) :
              /\ \A c \in UntouchedColumns : summit_df'[i][c] = summit_df[i][c]
              /\ (i - 1) \notin Range(popped') => summit_df'[i] = summit_df[i]

\* with a pool of one row, every copied field of a touched row is that
\* row's, and the identifiers are pairwise distinct
SinglePoolRowCopied ==
    (Returned /\ mode = "apply" /\ Len(crocevia_pool_df) = 1) =>
        /\ \A k \in 1..Len(picked) :
              \A f \in Range(picked[k].fields) :
                  summit_df[picked[k].idx + 1][f] = crocevia_pool_df[1][f]
        /\ \A i, j \in 1..Len(summit_df) :
              i # j => summit_df[i].CUSTOMER_ID # summit_df[j].CUSTOMER_ID

\* C27: _apply_overlap_to_summit_batch never changes CUSTOMER_ID, SOURCE,
\* GENDER, LATITUDE or LONGITUDE of a row, adds or removes no row, and leaves
\* every row it did not select unchanged; with a one-row pool all touched
\* rows carry that row's values and the identifiers stay pairwise distinct.
C27_FrameEffect == [][FrameKept]_vars /\ []SinglePoolRowCopied

\* a call with a one-row pool that touched one row of two and copied fields
C27_Witness ==
    /\ Returned /\ mode = "apply" /\ err = ""
    /\ Len(crocevia_pool_df) = 1 /\ Len(summit_df) = 2
    /\ Len(picked) = 1 /\ picked[1].fields # <<>>
    /\ summit_df[picked[1].idx + 1].OVERLAP_TYPE # NONE

\* ceil(a / b) for b >= 1
CeilDiv(a, b) == (a + b - 1) \div b
InCroceviaLoop == mode = "main" /\ pc \in {"crocevia_loop", "crocevia_built"}
InSummitLoop ==
    mode = "main" /\ pc \in {"summit_loop", "summit_built", "summit_pooled", "summit_overlapped"}

\* C23: with a people source that can fill every batch, each loop of the
\* orchestrator keeps `generated` at or below total_rows, asks each batch for
\* min(batch size, total_rows - generated) records, ends after exactly
\* ceil(total_rows / batch size) batches, and has then handed the sink as many
\* rows as the total row target.
C23_LoopDeliversTarget ==
    (mode = "main" /\ people_table_rows = PeopleRows) =>
        /\ InCroceviaLoop => generated <= total_rows.crocevia
        /\ InSummitLoop => generated <= total_rows.summit
        /\ pc = "crocevia_built" =>
              batch = Min(BATCH_SIZE_CROCEVIA, total_rows.crocevia - generated)
        /\ pc \in {"summit_built", "summit_pooled", "summit_overlapped"} =>
              batch = Min(BATCH_SIZE_SUMMIT, total_rows.summit - generated)
        /\ pc = "done" =>
              /\ batches_written.crocevia = CeilDiv(total_rows.crocevia, BATCH_SIZE_CROCEVIA)
              /\ batches_written.summit = CeilDiv(total_rows.summit, BATCH_SIZE_SUMMIT)
              /\ batches_written.crocevia > 0 => Len(CROCEVIA_TABLE) = total_rows.crocevia
              /\ batches_written.summit > 0 => Len(SUMMIT_TABLE) = total_rows.summit

\* the seven columns the pool query selects
PoolColumns(r) ==
    [FIRST_NAME |-> r.FIRST_NAME, LAST_NAME |-> r.LAST_NAME,
     BIRTH_DATE |-> r.BIRTH_DATE, PHONE |-> r.PHONE, EMAIL |-> r.EMAIL,
     STREET |-> r.STREET, POSTAL_CODE |-> r.POSTAL_CODE]

\* a step of generate_summit: it never writes the Crocevia table and never
\* returns to generate_crocevia; the pool is replaced only by the query step,
\* which follows the build of the batch, and the write follows the overlap
\* step that used the pool
SummitStep ==
    InSummitLoop =>
        /\ CROCEVIA_TABLE' = CROCEVIA_TABLE
        /\ batches_written'.crocevia = batches_written.crocevia
        /\ ~InCroceviaLoop'
        /\ crocevia_pool_df' # crocevia_pool_df => pc = "summit_built"
        /\ pc = "summit_built" => pc' = "summit_pooled"
        /\ pc' = "summit_pooled" => pc = "summit_built"
        /\ pc' = "summit_overlapped" => pc = "summit_pooled"
        /\ WritesSummit => pc = "summit_overlapped"

\* no pool is queried while generate_crocevia runs
CroceviaStep ==
    InCroceviaLoop => crocevia_pool_df' = crocevia_pool_df

\* the pool a Summit Sports batch uses is a sample of the Crocevia table as
\* the finished Crocevia generation left it, of pool_size rows when the table
\* has that many
PoolIsFreshSample ==
    (mode = "main" /\ pc \in {"summit_pooled", "summit_overlapped"}) =>
        /\ Len(crocevia_pool_df) = Min(PoolSize(batch), Len(CROCEVIA_TABLE))
        /\ \A i \in 1..Len(crocevia_pool_df) :
              \E j \in 1..Len(CROCEVIA_TABLE) :
                  crocevia_pool_df[i] = PoolColumns(CROCEVIA_TABLE[j])

\* C24: every reference-pool query happens after the last Crocevia batch is
\* written; each Summit Sports batch gets exactly one fresh pool query, after
\* its base rows are built and before it is written; Summit Sports
\* generation reads the Crocevia table and never writes it.
C24_PoolQueriedPerSummitBatch ==
    [][SummitStep /\ CroceviaStep]_vars /\ []PoolIsFreshSample

\* the second Summit Sports batch of a run has its own pool, drawn from a
\* Crocevia table of two written batches
C24_Witness ==
    /\ mode = "main" /\ pc = "summit_pooled"
    /\ batches_written = [crocevia |-> 2, summit |-> 1]
    /\ Len(crocevia_pool_df) = PoolSize(batch) /\ Len(crocevia_pool_df) > 1

\* the rows of a frame whose identifier is derived from the identifier of row j
DuplicatesOf(df, j) ==
    {k \in 1..Len(df) : k # j /\ IsPrefix(df[j].CUSTOMER_ID \o DupMark, df[k].CUSTOMER_ID)}

\* C25: in every batch handed to the sink, an injected duplicate row has the
\* identity of the row its identifier is derived from: the same FIRST_NAME,
\* LAST_NAME, GENDER and BIRTH_DATE.
C25_DuplicateKeepsIdentity ==
    (mode = "main" /\ pc = "summit_overlapped") =>
        \A j \in 1..Len(summit_df) :
            \A k \in DuplicatesOf(summit_df, j) :
                /\ summit_df[k].FIRST_NAME = summit_df[j].FIRST_NAME
                /\ summit_df[k].LAST_NAME = summit_df[j].LAST_NAME
                /\ summit_df[k].GENDER = summit_df[j].GENDER
                /\ summit_df[k].BIRTH_DATE = summit_df[j].BIRTH_DATE

BuildReturned == mode = "build_base_batch" /\ pc = "return"
\* the four address columns of a record
AddressOf(r) ==
    [STREET |-> r.STREET, POSTAL_CODE |-> r.POSTAL_CODE,
     LATITUDE |-> r.LATITUDE, LONGITUDE |-> r.LONGITUDE]

\* C26: _build_base_batch raises nothing on an empty address sample; the
\* base records are as many as the people rows; with a non-empty address
\* sample, shorter than the people sample or not, every record carries the
\* address of a row of the sample, and with an empty one every record has
\* absent STREET, POSTAL_CODE, LATITUDE and LONGITUDE.
C26_AddressesPadded ==
    BuildReturned =>
        /\ build_addr_df = <<>> => err = ""
        /\ err = "" =>
              /\ Len(base_records) = Len(build_people_df)
              /\ \A k \in 1..Len(base_records) :
                    IF build_addr_df = <<>>
                    THEN AddressOf(base_records[k]) = NoAddress
                    ELSE \E j \in 1..Len(build_addr_df) :
                            AddressOf(base_records[k]) = build_addr_df[j]

\* C28: whenever load_french_addresses returns normally it returns exactly
\* num_addresses addresses (here address_count), so that the loop's
\* address_idx stays below len(addresses) and the loop never fails on
\* addresses[address_idx].
AddressesLoaded ==
    mode = "generate_crocevia_customers" /\ pc \in {"loaded", "return"}
C28_AddressesSuffice ==
    AddressesLoaded =>
        /\ Len(french_addresses) = address_count(num_customers)
        /\ Cardinality(address_indices) <= Len(french_addresses)

\* C22: in the frame generate_crocevia_customers returns for N customers,
\* floor(0.20*N) rows are tagged TRIPLE, the rows tagged TRIPLE, EMAIL or
\* EMAIL_PHONE number floor(0.60*N), those tagged TRIPLE, PHONE or
\* EMAIL_PHONE number floor(0.50*N), and those tagged TRIPLE or NAME number
\* floor(0.35*N).
CustomersReturned ==
    mode = "generate_crocevia_customers" /\ pc = "return"
TaggedCount(tags) ==
    Cardinality({k \in 1..Len(customers) : customers[k].OVERLAP_TYPE[1] \in tags})
C22_OverlapTotalsMet ==
    CustomersReturned =>
        /\ TaggedCount({"TRIPLE"}) = triple_match_count(num_customers)
        /\ TaggedCount({"TRIPLE", "EMAIL", "EMAIL_PHONE"}) = email_overlap_count(num_customers)
        /\ TaggedCount({"TRIPLE", "PHONE", "EMAIL_PHONE"}) = phone_overlap_count(num_customers)
        /\ TaggedCount({"TRIPLE", "NAME"}) = name_overlap_count(num_customers)

\* C21: every customer of the returned frame carries exactly one category
\* of NONE, TRIPLE, EMAIL_PHONE, EMAIL, PHONE, NAME, the first that applies
\* in the order TRIPLE > EMAIL_PHONE > EMAIL > PHONE > NAME > NONE over the
\* index sets (so a customer of the triple set is tagged TRIPLE), and the
\* fields copied from the source sample are exactly those the tag names:
\* names, email and phone of one source row for TRIPLE, an email for EMAIL,
\* a phone for PHONE, both for EMAIL_PHONE, the names of one source row for
\* NAME, nothing for NONE.
TagOf(k) == customers[k].OVERLAP_TYPE[1]
FromSource(value, column) ==
    value # None /\ \E j \in 1..Len(source_sample) : source_sample[j][column] = value
NamesFromSource(k) ==
    \E j \in 1..Len(source_sample) :
        /\ customers[k].FIRST_NAME = source_sample[j].FIRST_NAME
        /\ customers[k].LAST_NAME = source_sample[j].LAST_NAME
TaggedByPriority(k) ==
    LET i == k - 1
    IN /\ TagOf(k) \in {"NONE", "TRIPLE", "EMAIL_PHONE", "EMAIL", "PHONE", "NAME"}
       /\ TagOf(k) = "TRIPLE" <=> i \in triple_indices
       /\ TagOf(k) = "EMAIL_PHONE" <=>
             i \notin triple_indices /\ i \in email_indices /\ i \in phone_indices
       /\ TagOf(k) = "EMAIL" <=>
             i \notin triple_indices /\ i \in email_indices /\ i \notin phone_indices
       /\ TagOf(k) = "PHONE" <=>
             i \notin triple_indices /\ i \notin email_indices /\ i \in phone_indices
       /\ TagOf(k) = "NAME" <=>
             i \notin (triple_indices \cup email_indices \cup phone_indices)
             /\ i \in name_indices
       /\ TagOf(k) = "NONE" <=>
             i \notin (triple_indices \cup email_indices \cup phone_indices
                           \cup name_indices)
CopiedAsTagged(k) ==
    LET src_row == source_sample[((k - 1) % Len(source_sample)) + 1]
    IN IF TagOf(k) = "TRIPLE"
       THEN /\ customers[k].FIRST_NAME = src_row.FIRST_NAME
            /\ customers[k].LAST_NAME = src_row.LAST_NAME
            /\ customers[k].EMAIL = src_row.EMAIL
            /\ customers[k].PHONE = src_row.PHONE
       ELSE /\ FromSource(customers[k].EMAIL, "EMAIL") <=> TagOf(k) \in {"EMAIL", "EMAIL_PHONE"}
            /\ FromSource(customers[k].PHONE, "PHONE") <=> TagOf(k) \in {"PHONE", "EMAIL_PHONE"}
            /\ NamesFromSource(k) <=> TagOf(k) = "NAME"
            /\ FromSource(customers[k].FIRST_NAME, "FIRST_NAME") <=> TagOf(k) = "NAME"
            /\ FromSource(customers[k].LAST_NAME, "LAST_NAME") <=> TagOf(k) = "NAME"
C21_OneCategoryByPriority ==
    CustomersReturned =>
        /\ Len(customers) = num_customers
        /\ \A k \in 1..Len(customers) : TaggedByPriority(k) /\ CopiedAsTagged(k)
C21_Witness ==
    /\ CustomersReturned
    /\ TaggedCount({"TRIPLE"}) > 0
    /\ TaggedCount({"EMAIL_PHONE"}) > 0
    /\ TaggedCount({"NAME"}) > 0
    /\ name_indices \cap email_indices = {}

\* C29: in the returned frame every row tagged EMAIL or EMAIL_PHONE has a
\* non-null email that is an email of the source sample, every row tagged
\* PHONE or EMAIL_PHONE a non-null phone that is a phone of the source
\* sample, and a TRIPLE row keeps the email and the phone of its source row:
\* the missing-value step blanks neither.
SourceValues(column) == Range(dropna(source_sample, column))
C29_CopiedContactsKept ==
    CustomersReturned =>
        \A k \in 1..Len(customers) :
            /\ TagOf(k) \in {"EMAIL", "EMAIL_PHONE"} =>
                  customers[k].EMAIL # None /\ customers[k].EMAIL \in SourceValues("EMAIL")
            /\ TagOf(k) \in {"PHONE", "EMAIL_PHONE"} =>
                  customers[k].PHONE # None /\ customers[k].PHONE \in SourceValues("PHONE")
            /\ TagOf(k) = "TRIPLE" =>
                  /\ customers[k].EMAIL =
                        source_sample[((k - 1) % Len(source_sample)) + 1].EMAIL
                  /\ customers[k].PHONE =
                        source_sample[((k - 1) % Len(source_sample)) + 1].PHONE
C29_Witness ==
    /\ CustomersReturned
    /\ \E k \in 1..Len(customers) : TagOf(k) = "TRIPLE" /\ customers[k].EMAIL # None
    /\ \E k \in 1..Len(customers) : TagOf(k) = "EMAIL"
    /\ \E k \in 1..Len(customers) : TagOf(k) = "PHONE"
    /\ \E k \in 1..Len(customers) : TagOf(k) = "EMAIL_PHONE"
    /\ \E k \in 1..Len(customers) :
          TagOf(k) \in {"NONE", "NAME"} /\ customers[k].EMAIL = None
====
